---- MODULE Spec2Model ----
(***************************************************************************)
(* Asset-Manager: the SharePoint / Microsoft Graph client                  *)
(* (src/services/sharepointService.ts, and the second copy of the service  *)
(* kept in src/screens/LoginScreen.tsx), the list screen                   *)
(* (src/screens/ListScreen.tsx) and the record view (src/unnamed/part_000).*)
(*                                                                         *)
(* Spec         the session machine: token, caches, asynchronous Graph     *)
(*              calls and the UI handlers that issue them.  One action is  *)
(*              one run of a function from one await to the next.          *)
(* SpecNorm     normalizeFieldNames (both copies) on bounded raw records   *)
(*              and column lists.                                          *)
(* SpecRecords  what getRecords (both copies) makes of one items response, *)
(*              and what ListScreen shows of it.                           *)
(* SpecResolve  the two name resolvers of the service with their identity  *)
(*              requests in flight: fan-out, responses in any order,       *)
(*              barrier, populate.                                         *)
(***************************************************************************)
EXTENDS Integers, Sequences, FiniteSets, TLC

(***************************************************************************)
(* Bounds                                                                  *)
(***************************************************************************)
MaxThreads == 2      \* concurrently running async calls (UI handlers and fan-out lambdas)
MaxTokens == 2       \* successful authentications in one run
MaxOps == 1          \* UI handlers started in one run
MaxFields == 3       \* properties of a raw record handed to normalizeFieldNames
MaxColumns == 2      \* columns in a columns response
MaxRecords == 2      \* items in an items response
MaxRuns == 2         \* times the list is loaded in one run of the resolver machine
MaxOverlap == 2      \* UI handlers started in one run of the overlap machine
MaxList == 3         \* records on the list screen

Null == "null"

Token(n) == "token-" \o ToString(n)

Threads == 1..MaxThreads

UiLists == {"Assets", "Access Cards"}

VARIABLES
    accessToken,                \* SharePointService.accessToken
    siteId,                     \* SharePointService.siteId
    listIdCache,                \* SharePointService.listIdCache
    fieldMappingCache,          \* SharePointService.fieldMappingCache
    onSessionTimeoutCallback,   \* registered or not
    callbackRuns,               \* what each run of the registered callback saw
    tokenSeq,                   \* tokens handed out by the identity provider so far
    threads,                    \* the running async calls
    listName,                   \* the listName prop of the screens
    listScreen,                 \* ListScreen state: loading, error, records
    alert,                      \* what the handler that settled last passed to Alert.alert
    started,                    \* UI handlers started so far
    columns,                    \* the columns response of the list
    fieldMapping,               \* what getFieldMapping made of it
    record,                     \* the raw record handed to normalizeFieldNames
    normalized,                 \* what each copy of normalizeFieldNames returned
    copy,                       \* the copy of the service that getRecords runs in
    items,                      \* the fields of the items of the items response
    directory,                  \* what the server answers to identity requests
    cachedEmployees,            \* the cachedEmployees argument of getRecords
    result,                     \* what getRecords returned
    shown,                      \* the assignee row ListScreen shows, per record
    resolver,                   \* the name resolver getRecords is running
    calls,                      \* per lookup id, the async lambda of the fan-out
    requests,                   \* per lookup id, the identity requests sent for it
    updateCalls,                \* per thread, the fields its handler passed to updateRecord
    budget,                     \* UI handlers the run may start
    serverRecord,               \* lookup and status field of the open record, on the server
    columnRequests,             \* per token, the columns requests sent with it
    userPaging,                 \* the getAllUsers call: its locals, and the tenant's last page
    listView                    \* ListScreen: records, search and category, and what it derives

svcVars == <<accessToken, siteId, listIdCache, fieldMappingCache,
             onSessionTimeoutCallback, callbackRuns>>

resolveVars == <<resolver, calls, requests>>

recordVars == <<columns, fieldMapping, record, normalized, copy, items,
                directory, cachedEmployees, result, shown, resolveVars>>

\* what the service and the UI handlers leave alone
otherVars == <<budget, userPaging, listView>>

\* what the server has received
serverVars == <<serverRecord, columnRequests>>

dataVars == <<recordVars, updateCalls, otherVars, serverVars>>

(***************************************************************************)
(* Maps (JS Map): functions over the set of keys present                   *)
(***************************************************************************)
EmptyMap == [k \in {} |-> ""]

MapSet(m, k, v) == [x \in (DOMAIN m) \cup {k} |-> IF x = k THEN v ELSE m[x]]

MapHas(m, k) == k \in DOMAIN m

(***************************************************************************)
(* JSON values.  A person or lookup object keeps the properties the code   *)
(* reads off it: id, email and displayName ("" = the property is missing). *)
(***************************************************************************)
Undefined == [type |-> "undefined"]

JsonNull == [type |-> "null"]

Num(text) == [type |-> "number", text |-> text]

Str(text) == [type |-> "string", text |-> text]

PersonWithEmail(id, email, displayName) ==
    [type |-> "object", id |-> id, email |-> email, displayName |-> displayName]

Person(id, displayName) == PersonWithEmail(id, "", displayName)

\* String(v) of a number or a string
ToStr(v) == v.text

\* v == null (null or undefined)
Nullish(v) == v.type \in {"undefined", "null"}

Truthy(v) ==
    IF v.type = "string" THEN v.text # ""
    ELSE IF v.type = "number" THEN v.text # "0"
    ELSE v.type = "object"

\* a ?? b ?? c
RECURSIVE Coalesce(_)
Coalesce(vs) ==
    IF Len(vs) = 1 \/ ~Nullish(Head(vs)) THEN Head(vs) ELSE Coalesce(Tail(vs))

\* a || b || c
RECURSIVE FirstTruthy(_)
FirstTruthy(vs) ==
    IF Len(vs) = 1 \/ Truthy(Head(vs)) THEN Head(vs) ELSE FirstTruthy(Tail(vs))

\* JSON.stringify
Stringify(v) ==
    IF v.type = "number" THEN v.text
    ELSE IF v.type = "string" THEN "\"" \o v.text \o "\""
    ELSE IF v.type = "object"
      THEN "{" \o (IF v.id = "" THEN "" ELSE "\"id\":\"" \o v.id \o "\",")
               \o "\"displayName\":\"" \o v.displayName \o "\""
               \o (IF v.email = "" THEN "" ELSE ",\"email\":\"" \o v.email \o "\"")
               \o "}"
    ELSE "null"

(***************************************************************************)
(* Property names are sequences of pieces, so that includes('LookupId'),   *)
(* replace('LookupId', '') and `${name}LookupId` can be computed.          *)
(***************************************************************************)
Includes(name, piece) == \E i \in 1..Len(name) : name[i] = piece

EndsWith(name, piece) == Len(name) > 0 /\ name[Len(name)] = piece

\* name.replace(piece, ''): the first occurrence goes
Replace(name, piece) ==
    IF ~Includes(name, piece) THEN name
    ELSE LET i == CHOOSE i \in 1..Len(name) :
                     name[i] = piece /\ \A j \in 1..(i - 1) : name[j] # piece
         IN  SubSeq(name, 1, i - 1) \o SubSeq(name, i + 1, Len(name))

Id == <<"Id">>
Employee == <<"Employee">>
EmployeeLookupId == <<"Employee", "LookupId">>
EmployeeName == <<"EmployeeName">>
EmployeeLookupId_displayName == <<"Employee", "LookupId", "_displayName">>
field_2 == <<"field_2">>
field_2LookupId == <<"field_2", "LookupId">>
field_2LookupId_displayName == <<"field_2", "LookupId", "_displayName">>
Assignee == <<"Assignee">>
AssigneeLookupId == <<"Assignee", "LookupId">>
AssigneeSpaceLookupId == <<"Assignee ", "LookupId">>
AssigneeName == <<"AssigneeName">>
Owner == <<"Owner">>

(***************************************************************************)
(* JS objects: the properties in insertion order                           *)
(***************************************************************************)
Keys(obj) == {obj[i].key : i \in 1..Len(obj)}

Has(obj, key) == key \in Keys(obj)

Get(obj, key) ==
    IF Has(obj, key)
      THEN obj[CHOOSE i \in 1..Len(obj) : obj[i].key = key].value
      ELSE Undefined

Put(obj, key, value) ==
    IF Has(obj, key)
      THEN [i \in 1..Len(obj) |->
              IF obj[i].key = key THEN [key |-> key, value |-> value] ELSE obj[i]]
      ELSE Append(obj, [key |-> key, value |-> value])

(***************************************************************************)
(* getFieldMapping: the loop over the columns response                     *)
(***************************************************************************)
RECURSIVE columnsForEach(_, _, _)
columnsForEach(cols, i, info) ==
    IF i > Len(cols) THEN info
    ELSE LET internalName == cols[i].name
             displayName == cols[i].displayName
             m1 == MapSet(info.mapping, internalName, displayName)
             m2 == IF Includes(internalName, "LookupId")
                     THEN MapSet(m1, Replace(internalName, "LookupId"), displayName)
                     ELSE m1
             baseFieldName == Replace(internalName, "LookupId")
             isLookup == cols[i].lookup \/ EndsWith(internalName, "LookupId")
             l2 == IF /\ isLookup
                      /\ baseFieldName # <<>>
                      /\ \A j \in 1..Len(info.lookupFields) :
                            info.lookupFields[j] # baseFieldName
                     THEN Append(info.lookupFields, baseFieldName)
                     ELSE info.lookupFields
         IN  columnsForEach(cols, i + 1, [mapping |-> m2, lookupFields |-> l2])

\* mapping: internal name -> display name; lookupFields: what the copy of the
\* service in LoginScreen.tsx returns beside it
getFieldMapping_columns(cols) ==
    columnsForEach(cols, 1, [mapping |-> EmptyMap, lookupFields |-> <<>>])

(***************************************************************************)
(* normalizeFieldNames, src/services/sharepointService.ts                  *)
(***************************************************************************)
RECURSIVE normalizeKeys(_, _, _, _)
normalizeKeys(rec, mapping, i, out) ==
    IF i > Len(rec) THEN out
    ELSE LET key == rec[i].key
             value == rec[i].value
         IN  IF MapHas(mapping, key) /\ mapping[key] # key
               THEN LET displayName == mapping[key]
                        n1 == Put(out, displayName, value)
                        baseKey == Replace(key, "LookupId")
                        baseDisplayName ==
                            IF MapHas(mapping, baseKey) THEN mapping[baseKey]
                                                        ELSE baseKey
                        displayLookupId == baseDisplayName \o <<"LookupId">>
                        n2 == IF Includes(key, "LookupId") /\ displayLookupId # key
                                THEN Put(n1, displayLookupId, value)
                                ELSE n1
                        n3 == IF ~Includes(key, "LookupId") /\ value.type = "object"
                                THEN Put(n2, displayName, value)
                                ELSE n2
                    IN  normalizeKeys(rec, mapping, i + 1, n3)
               ELSE normalizeKeys(rec, mapping, i + 1, out)

normalizeFieldNames(rec, mapping) == normalizeKeys(rec, mapping, 1, rec)

(***************************************************************************)
(* normalizeFieldNames, the copy in src/screens/LoginScreen.tsx            *)
(***************************************************************************)
displayNamesToRemove(rec, mapping) ==
    {mapping[key] : key \in
        {k \in Keys(rec) :
            /\ MapHas(mapping, k)
            /\ mapping[k] # k
            /\ Has(rec, mapping[k])
            /\ Stringify(Get(rec, mapping[k])) = Stringify(Get(rec, k))}}

normalizeFieldNames_LoginScreen(rec, mapping) ==
    LET remove == displayNamesToRemove(rec, mapping)
        Kept(f) == f.key \notin remove
    IN  SelectSeq(rec, Kept)

(***************************************************************************)
(* Lookup ids.  parseInt(id, 10) reads the leading decimal digits of a     *)
(* string, so it gives a number for a GUID that starts with a digit; 0     *)
(* stands for NaN here (every use is `!isNaN(n) && n > 0`).                *)
(***************************************************************************)
LetterGuid == "ab12cd34-1111-4222-8333-444455556666"

DigitGuid == "5a6b7c8d-1111-4222-8333-444455556666"

UpperDigitGuid == "5A6B7C8D-1111-4222-8333-444455556666"

OtherEmail == "eve@corp.example"

IntegerIds == {"5", "7"}

GuidIds == {LetterGuid, DigitGuid}

\* the lookup ids of the records
IdTexts == IntegerIds \cup GuidIds

\* /^[0-9a-f]{8}-[0-9a-f]{4}-[0-9a-f]{4}-[0-9a-f]{4}-[0-9a-f]{12}$/i.test(text)
IsGuid(text) == text \in GuidIds \cup {UpperDigitGuid}

\* parseInt(text, 10)
ParseInt(text) ==
    IF text \in {"5", DigitGuid, UpperDigitGuid} THEN 5
    ELSE IF text = "7" THEN 7
    ELSE IF text = "9" THEN 9
    ELSE 0

\* text.toLowerCase(): the other strings of the model differ in more than case
ToLowerCase(text) == IF text = UpperDigitGuid THEN DigitGuid ELSE text

\* the list items a lookup id of the model can be taken for
ItemNumbers == {ParseInt(id) : id \in IdTexts} \ {0}

Placeholder(id) == Str("[ID: " \o id \o "]")

MapRecords(Op(_), recs) == [i \in 1..Len(recs) |-> Op(recs[i])]

\* { Id: item.id, ...fields }
ItemRecord(its, i) == <<[key |-> Id, value |-> Str(ToString(i))]>> \o its[i]

(***************************************************************************)
(* cachedEmployees and findEmployeeById.  An employee keeps its Id, EmpID  *)
(* and Email and the name the code reads off it (Employee || EmployeeName  *)
(* || Title || displayName || DisplayName), "" when it has none.           *)
(***************************************************************************)
CachedEmployee(id, empId, email, displayName) ==
    [Id |-> id, EmpID |-> empId, Email |-> email, displayName |-> displayName]

\* null
NoEmployee == CachedEmployee("", "", "", "")

\* cachedEmployees.find(test)
FirstMatch(emps, Test(_)) ==
    IF \E i \in 1..Len(emps) : Test(emps[i])
      THEN emps[CHOOSE i \in 1..Len(emps) :
                   Test(emps[i]) /\ \A j \in 1..(i - 1) : ~Test(emps[j])]
      ELSE NoEmployee

findEmployeeById(emps, lookupId) ==
    LET lookupIdInt == ParseInt(lookupId)
        ByGuid(emp) == ToLowerCase(emp.Id) = ToLowerCase(lookupId)
        ByIntId(emp) == ParseInt(emp.Id) = lookupIdInt
        ByEmpId(emp) == emp.EmpID = lookupId \/ emp.EmpID = ToString(lookupIdInt)
        ByEmail(emp) == ToLowerCase(emp.Email) = ToLowerCase(lookupId)
    IN  IF emps = <<>> THEN NoEmployee
        ELSE IF IsGuid(lookupId) /\ FirstMatch(emps, ByGuid) # NoEmployee
          THEN FirstMatch(emps, ByGuid)
        ELSE IF lookupIdInt > 0 /\ FirstMatch(emps, ByIntId) # NoEmployee
          THEN FirstMatch(emps, ByIntId)
        ELSE IF lookupIdInt > 0 /\ FirstMatch(emps, ByEmpId) # NoEmployee
          THEN FirstMatch(emps, ByEmpId)
        ELSE IF lookupId = OtherEmail
          THEN FirstMatch(emps, ByEmail)
        ELSE NoEmployee

CachedName(emp) == emp.displayName

(***************************************************************************)
(* What the server answers to the identity requests of a batch: the lists  *)
(* getListId finds, and per request the name the code extracts from the    *)
(* response ("" when the item has none), or Fails when the request throws. *)
(***************************************************************************)
Fails == "<error>"

Directory(lists, item5, card5, user) ==
    [lists |-> lists,
     items |-> [n \in ItemNumbers |-> IF n = 5 THEN item5 ELSE Fails],
     cards |-> [n \in ItemNumbers |-> IF n = 5 THEN card5 ELSE Fails],
     users |-> [g \in GuidIds |-> user]]

\* displayName || ... || email || ... of an expanded object
ObjectAnyName(obj) == IF obj.displayName # "" THEN obj.displayName ELSE obj.email

(***************************************************************************)
(* resolveEmployeeNames (the two copies are the same text)                 *)
(***************************************************************************)
\* the first block: names of already expanded Employee objects
expandedEmployees(recs) ==
    LET FromObject(r) ==
            LET e == Get(r, Employee)
            IN  IF e.type = "object" /\ ObjectAnyName(e) # ""
                  THEN Put(Put(r, Employee, Str(ObjectAnyName(e))),
                           EmployeeName, Str(ObjectAnyName(e)))
                  ELSE r
    IN  IF Get(recs[1], Employee).type = "object"
          THEN MapRecords(FromObject, recs)
          ELSE recs

employeeIdsToFetch(recs) ==
    {ToStr(Get(recs[i], EmployeeLookupId)) :
        i \in {j \in 1..Len(recs) : ~Nullish(Get(recs[j], EmployeeLookupId))}}

integerIds(ids) == {id \in ids : ParseInt(id) > 0}

\* what the lambda of one id returns, given what its two requests get
\* (Fails also stands for a request that is not made)
fetchEmployee_result(employeeItem, cardItem) ==
    IF employeeItem # Fails THEN employeeItem
    ELSE IF cardItem # Fails THEN cardItem
    ELSE ""

\* the last block: Employee from the names fetched, or the placeholder
populateEmployee(r, employeeNameCache) ==
    LET raw == Get(r, EmployeeLookupId)
        lookupId == ToStr(raw)
    IN  IF Nullish(raw) THEN r
        ELSE IF MapHas(employeeNameCache, lookupId)
          THEN Put(Put(r, Employee, Str(employeeNameCache[lookupId])),
                   EmployeeName, Str(employeeNameCache[lookupId]))
        ELSE Put(r, Employee, Placeholder(lookupId))

resolveEmployeeNames_records(recs, dir) ==
    LET expanded == expandedEmployees(recs)
        ids == integerIds(employeeIdsToFetch(expanded))
        Name(id) ==
            LET n == ParseInt(id)
                employeeItem == IF "Employees" \in dir.lists THEN dir.items[n]
                                                            ELSE Fails
                cardItem == IF employeeItem = Fails /\ "Access Cards" \in dir.lists
                              THEN dir.cards[n]
                              ELSE Fails
            IN  fetchEmployee_result(employeeItem, cardItem)
        named == {id \in ids : Name(id) # ""}
        employeeNameCache == [id \in named |-> Name(id)]
        Populate(r) == populateEmployee(r, employeeNameCache)
    IN  IF employeeIdsToFetch(expanded) = {} THEN expanded
        ELSE MapRecords(Populate, expanded)

(***************************************************************************)
(* resolveAssigneeNames (src/services/sharepointService.ts only).  The     *)
(* state of a run is userNameCache and lookupIdsToFetch.                   *)
(***************************************************************************)
AssigneeLookup(r) ==
    Coalesce(<<Get(r, field_2LookupId), Get(r, AssigneeLookupId),
               Get(r, AssigneeSpaceLookupId)>>)

AssigneeField(r) == Coalesce(<<Get(r, field_2), Get(r, Assignee)>>)

lookupIdsToFetch(recs) ==
    {ToStr(AssigneeLookup(recs[i])) :
        i \in {j \in 1..Len(recs) : ~Nullish(AssigneeLookup(recs[j]))}}

\* the first loop's test of an expanded object against the lookup id
isVerified(obj, lookupIdStr, emps) ==
    LET matchingEmployee == findEmployeeById(emps, lookupIdStr)
    IN  \/ obj.id # "" /\ ToLowerCase(obj.id) = ToLowerCase(lookupIdStr)
        \/ obj.email # "" /\ ToLowerCase(obj.email) = ToLowerCase(lookupIdStr)
        \/ /\ emps # <<>>
           /\ matchingEmployee # NoEmployee
           /\ \/ /\ obj.displayName # ""
                 /\ matchingEmployee.displayName # ""
                 /\ ToLowerCase(obj.displayName)
                      = ToLowerCase(matchingEmployee.displayName)
              \/ /\ obj.email # ""
                 /\ matchingEmployee.Email # ""
                 /\ ToLowerCase(obj.email) = ToLowerCase(matchingEmployee.Email)

\* the first loop: names of the expanded objects it trusts
RECURSIVE expandedAssignees(_, _, _, _)
expandedAssignees(recs, emps, i, st) ==
    IF i > Len(recs) THEN st
    ELSE LET lookupId == AssigneeLookup(recs[i])
             obj == AssigneeField(recs[i])
             lookupIdStr == ToStr(lookupId)
             rejected == /\ ~isVerified(obj, lookupIdStr, emps)
                         /\ (obj.id # "" \/ obj.email # "")
         IN  IF /\ ~Nullish(lookupId)
                /\ obj.type = "object"
                /\ ~rejected
                /\ ObjectAnyName(obj) # ""
               THEN expandedAssignees(recs, emps, i + 1,
                        [cache |-> MapSet(st.cache, lookupIdStr, ObjectAnyName(obj)),
                         toFetch |-> st.toFetch \ {lookupIdStr}])
               ELSE expandedAssignees(recs, emps, i + 1, st)

\* add the names found for some ids to userNameCache
CacheNames(cache, ids, Name(_)) ==
    LET named == {id \in ids : Name(id) # ""}
    IN  [id \in (DOMAIN cache) \cup named |->
            IF id \in named THEN Name(id) ELSE cache[id]]

\* "try to resolve from cachedEmployees": the ids found leave lookupIdsToFetch
fromCachedEmployees(st, emps) ==
    LET Name(id) == CachedName(findEmployeeById(emps, id))
    IN  [cache |-> CacheNames(st.cache, st.toFetch, Name),
         toFetch |-> {id \in st.toFetch : Name(id) = ""}]

\* what the lambda of the Employees round returns for an id, given what its
\* list-item request gets (no request is made when parseInt gives no number)
fetchAssignee_result(lookupId, emps, employeeItem) ==
    IF ParseInt(lookupId) <= 0 \/ employeeItem = Fails
      THEN CachedName(findEmployeeById(emps, lookupId))
      ELSE employeeItem

\* the ids of the users/<guid> round
unresolvedGuids(st) == {id \in st.toFetch : IsGuid(id) /\ ~MapHas(st.cache, id)}

\* the last loop
populateAssignee(r, userNameCache, emps) ==
    LET lookupId == AssigneeLookup(r)
        lookupIdStr == ToStr(lookupId)
        obj == AssigneeField(r)
        idsMatch == \/ obj.id = ""
                    \/ ToLowerCase(obj.id) = ToLowerCase(lookupIdStr)
                    \/ /\ obj.email # ""
                       /\ ToLowerCase(obj.email) = ToLowerCase(lookupIdStr)
        objectName == IF obj.type = "object" /\ idsMatch THEN ObjectAnyName(obj)
                                                         ELSE ""
        cachedName == IF MapHas(userNameCache, lookupIdStr)
                        THEN userNameCache[lookupIdStr]
                        ELSE ""
        employeeName == IF objectName # "" THEN objectName
                        ELSE IF cachedName # "" THEN cachedName
                        ELSE CachedName(findEmployeeById(emps, lookupIdStr))
    IN  IF Nullish(lookupId) THEN r
        ELSE IF employeeName # ""
          THEN Put(Put(r, Assignee, Str(employeeName)),
                   AssigneeName, Str(employeeName))
        ELSE Put(r, Assignee, Placeholder(lookupIdStr))

resolveAssigneeNames_records(recs, dir, emps) ==
    LET st0 == [cache |-> EmptyMap, toFetch |-> lookupIdsToFetch(recs)]
        st1 == expandedAssignees(recs, emps, 1, st0)
        st2 == fromCachedEmployees(st1, emps)
        ListName(id) ==
            IF "Employees" \in dir.lists
              THEN fetchAssignee_result(id, emps,
                      IF ParseInt(id) > 0 THEN dir.items[ParseInt(id)] ELSE Fails)
              ELSE CachedName(findEmployeeById(emps, id))
        st3 == [st2 EXCEPT !.cache = CacheNames(st2.cache, st2.toFetch, ListName)]
        UserName(id) == IF dir.users[id] = Fails THEN "" ELSE dir.users[id]
        st4 == [st3 EXCEPT !.cache = CacheNames(st3.cache, unresolvedGuids(st3),
                                                UserName)]
        Populate(r) == populateAssignee(r, st4.cache, emps)
    IN  IF lookupIdsToFetch(recs) = {} THEN recs ELSE MapRecords(Populate, recs)

(***************************************************************************)
(* expandLookupFields (src/screens/LoginScreen.tsx only)                   *)
(***************************************************************************)
\* the record has the LookupId of the field but no expanded object
needsExpansion(r, lookupField) ==
    LET lookupId == Get(r, lookupField \o <<"LookupId">>)
    IN  /\ ~Nullish(lookupId)
        /\ lookupId # Str("")
        /\ Get(r, lookupField).type # "object"

RECURSIVE expandLookupFields_records(_, _, _, _)
expandLookupFields_records(recs, lookupFields, dir, emps) ==
    IF lookupFields = <<>> THEN recs
    ELSE LET lookupField == Head(lookupFields)
             Expand(r) ==
                 LET id == ToStr(Get(r, lookupField \o <<"LookupId">>))
                     employee == findEmployeeById(emps, id)
                 IN  IF ~needsExpansion(r, lookupField) THEN r
                     ELSE IF IsGuid(id)
                       THEN IF dir.users[id] = Fails THEN r
                            ELSE Put(r, lookupField, Person(id, dir.users[id]))
                     ELSE IF /\ ParseInt(id) > 0
                             /\ employee # NoEmployee
                             /\ ~Truthy(Get(r, lookupField))
                       THEN Put(r, lookupField,
                                PersonWithEmail(employee.Id, employee.Email,
                                                employee.displayName))
                     ELSE r
         IN  expandLookupFields_records(MapRecords(Expand, recs),
                                        Tail(lookupFields), dir, emps)

\* what getRecords returns, src/services/sharepointService.ts
getRecords_records(name, its, info, dir, emps) ==
    LET Normalize(r) == normalizeFieldNames(r, info.mapping)
        recs == MapRecords(Normalize, [i \in 1..Len(its) |-> ItemRecord(its, i)])
    IN  IF name = "Access Cards" /\ Len(recs) > 0
          THEN resolveEmployeeNames_records(recs, dir)
        ELSE IF name = "Assets" /\ Len(recs) > 0
          THEN resolveAssigneeNames_records(recs, dir, emps)
        ELSE recs

\* what getRecords returns, the copy in src/screens/LoginScreen.tsx
getRecords_records_LoginScreen(name, its, info, dir, emps) ==
    LET Normalize(r) == normalizeFieldNames_LoginScreen(r, info.mapping)
        recs == [i \in 1..Len(its) |-> ItemRecord(its, i)]
        expanded == IF info.lookupFields # <<>> /\ Len(recs) > 0
                      THEN expandLookupFields_records(recs, info.lookupFields,
                                                      dir, emps)
                      ELSE recs
        normalizedRecords == MapRecords(Normalize, expanded)
    IN  IF name = "Access Cards" /\ Len(normalizedRecords) > 0
          THEN resolveEmployeeNames_records(normalizedRecords, dir)
          ELSE normalizedRecords

(***************************************************************************)
(* ListScreen: the value of the "Assignee :" row of a record, Undefined    *)
(* when the row is not rendered                                            *)
(***************************************************************************)
AssigneeRow(r, lookupKey, displayNameKey, fieldKey) ==
    LET hasAssignee == Truthy(Get(r, lookupKey))
        assigneeDisplayName ==
            IF hasAssignee
              THEN FirstTruthy(<<Get(r, displayNameKey), Get(r, fieldKey),
                                 Get(r, lookupKey), Str("-")>>)
              ELSE JsonNull
    IN  IF hasAssignee /\ Truthy(assigneeDisplayName) THEN assigneeDisplayName
                                                      ELSE Undefined

renderAccessCardRecord(r) ==
    AssigneeRow(r, EmployeeLookupId, EmployeeLookupId_displayName, Employee)

renderAssetRecord(r) ==
    AssigneeRow(r, field_2LookupId, field_2LookupId_displayName, field_2)

(***************************************************************************)
(* What the server holds                                                   *)
(***************************************************************************)
SiteIdValue == "site-1"

ListIdOf(name) == "id:" \o name

Column(name, displayName, lookup) ==
    [name |-> name, displayName |-> displayName, lookup |-> lookup]

ServerColumns(name) ==
    IF name = "Assets"
      THEN <<Column(<<"field_0">>, <<"Device Type">>, FALSE),
             Column(field_2LookupId, Assignee, TRUE)>>
      ELSE <<Column(EmployeeLookupId, Employee, TRUE)>>

\* internal column name -> display name, as getFieldMapping builds it from
\* the columns response
ColumnMapping(name) == getFieldMapping_columns(ServerColumns(name)).mapping

(***************************************************************************)
(* The service object as one value, so that the synchronous helpers are    *)
(* functions from service state to service state                           *)
(***************************************************************************)
Service ==
    [accessToken |-> accessToken,
     siteId |-> siteId,
     listIdCache |-> listIdCache,
     fieldMappingCache |-> fieldMappingCache,
     onSessionTimeoutCallback |-> onSessionTimeoutCallback,
     callbackRuns |-> callbackRuns]

SetService(s) ==
    /\ accessToken' = s.accessToken
    /\ siteId' = s.siteId
    /\ listIdCache' = s.listIdCache
    /\ fieldMappingCache' = s.fieldMappingCache
    /\ onSessionTimeoutCallback' = s.onSessionTimeoutCallback
    /\ callbackRuns' = s.callbackRuns

\* the registered callback runs synchronously inside handleSessionTimeout;
\* what it can observe is the service state at that moment
CallbackView(s) ==
    [accessToken |-> s.accessToken,
     siteId |-> s.siteId,
     listIdCache |-> s.listIdCache,
     fieldMappingCache |-> s.fieldMappingCache]

\* every run of the callback is one entry of the log: its ordinal, the token
\* the expiry found (Null when the session had already been cleared) and
\* what the callback can observe
InvokeCallback(s, ended) ==
    [s EXCEPT !.callbackRuns =
        @ \cup {[run |-> Cardinality(s.callbackRuns) + 1, ended |-> ended]
                  @@ CallbackView(s)}]

\* a handleSessionTimeout that notifies before it clears
handleSessionTimeout_notifyFirst(s) ==
    LET s0 == IF s.onSessionTimeoutCallback
              THEN InvokeCallback(s, s.accessToken) ELSE s
    IN  [s0 EXCEPT !.accessToken = Null, !.siteId = Null,
                   !.listIdCache = EmptyMap, !.fieldMappingCache = EmptyMap]

handleSessionTimeout(s) ==
    LET s1 == [s EXCEPT !.accessToken = Null]
        s2 == [s1 EXCEPT !.siteId = Null]
        s3 == [s2 EXCEPT !.listIdCache = EmptyMap]
        s4 == [s3 EXCEPT !.fieldMappingCache = EmptyMap]
    IN  IF s4.onSessionTimeoutCallback
        THEN InvokeCallback(s4, s.accessToken) ELSE s4

(***************************************************************************)
(* HTTP responses                                                          *)
(***************************************************************************)
NoBody == [json |-> FALSE, code |-> "", words |-> {}]

\* error bodies of a 403: not JSON at all, or { error: { code, message } };
\* words are the (case-sensitive) substrings the message contains
ErrorBodies ==
    { NoBody,
      [json |-> TRUE, code |-> "accessDenied", words |-> {"denied"}],
      [json |-> TRUE, code |-> "InvalidAuthenticationToken", words |-> {}],
      [json |-> TRUE, code |-> "AuthenticationTokenExpired", words |-> {"expired"}],
      [json |-> TRUE, code |-> "", words |-> {"token"}],
      [json |-> TRUE, code |-> "", words |-> {"authentication"}] }

\* a 200 carries either the data asked for ("json") or a well-formed answer
\* without it ("empty": no id, no matching list, an empty value array)
Payloads == {"json", "empty"}

Responses ==
    { [status |-> 200, body |-> NoBody, payload |-> p] : p \in Payloads }
      \cup { [status |-> st, body |-> NoBody, payload |-> "none"] : st \in {401, 500} }
      \cup { [status |-> 403, body |-> b, payload |-> "none"] : b \in ErrorBodies }

\* the test of makeGraphRequest on a parsed 403 body
IsTokenRelated(body) ==
    \/ body.code = "InvalidAuthenticationToken"
    \/ body.code = "AuthenticationTokenExpired"
    \/ "token" \in body.words
    \/ "expired" \in body.words
    \/ "authentication" \in body.words

\* the message of the generic error: `Microsoft Graph API error: ${status} -
\* ${errorText}`.  Of the error text the model keeps whether it is a
\* token-related body.
GraphApiError(resp) ==
    IF resp.status = 403
      THEN IF resp.body.json /\ IsTokenRelated(resp.body)
             THEN "Microsoft Graph API error: 403 (token-related body)"
             ELSE "Microsoft Graph API error: 403"
      ELSE "Microsoft Graph API error: 500"

\* the lookup field of a list and the status field paired with it
LookupOf(name) ==
    IF name = "Access Cards" THEN "EmployeeLookupId" ELSE "field_2LookupId"

StatusOf(name) ==
    IF name = "Access Cards" THEN "CardStatus" ELSE "DeviceStatus"

\* the open record as the server holds it before anybody was assigned
AvailableRecord(name) ==
    [f \in {LookupOf(name), StatusOf(name)} |->
        IF f = LookupOf(name) THEN Null ELSE "Available"]

\* the server on a PATCH of the fields of an item: the fields named in the
\* body take the values of the body, the others stay
PatchFields(rec, body) ==
    [f \in DOMAIN rec \cup DOMAIN body |->
        IF f \in DOMAIN body THEN body[f] ELSE rec[f]]

\* makeGraphRequest on a response that is not ok: the new service state and
\* the error that leaves the function
makeGraphRequestError(s, resp) ==
    IF resp.status = 401
      THEN [svc |-> handleSessionTimeout(s), err |-> "SessionTimeoutError",
            expired |-> TRUE]
    ELSE IF resp.status = 403
      THEN LET inTry ==
                 IF ~resp.body.json
                   THEN [svc |-> s, thrown |-> "SyntaxError", expired |-> FALSE]
                 ELSE IF IsTokenRelated(resp.body)
                   THEN [svc |-> handleSessionTimeout(s),
                         thrown |-> "SessionTimeoutError", expired |-> TRUE]
                 ELSE [svc |-> s, thrown |-> "none", expired |-> FALSE]
           IN  \* catch (parseError) { } : whatever the try block threw is
               \* dropped, and the generic error below is thrown
               [svc |-> inTry.svc, err |-> GraphApiError(resp),
                expired |-> inTry.expired]
    ELSE [svc |-> s, err |-> GraphApiError(resp), expired |-> FALSE]

(***************************************************************************)
(* Running async calls.  A thread is the stack of async functions that are *)
(* suspended at an await, innermost first; ret is the settled result of    *)
(* the call the innermost one awaits.  A function called in the middle of  *)
(* a run executes synchronously up to its own first await, which is what   *)
(* the _enter operators compute.                                           *)
(***************************************************************************)
NoRet == [kind |-> "none", val |-> ""]

\* the fields argument of a call that has none
NoFields == EmptyMap

Frame(fn, pc, arg) ==
    [fn |-> fn, pc |-> pc, arg |-> arg, auth |-> Null, lists |-> {},
     body |-> NoFields, run |-> 0]

IdleThread ==
    [stack |-> <<>>, ret |-> NoRet, parent |-> 0, expired |-> FALSE]

Push(th, f) == [th EXCEPT !.stack = <<f>> \o @, !.ret = NoRet]

Pop(th) == [th EXCEPT !.stack = Tail(@)]

SetPc(th, pc) == [th EXCEPT !.stack[1].pc = pc, !.ret = NoRet]

Value(th, v) == [th EXCEPT !.ret = [kind |-> "value", val |-> v]]

Fail(th, e) == [th EXCEPT !.ret = [kind |-> "throw", val |-> e]]

Idle(t) == threads[t].stack = <<>> /\ threads[t].parent = 0

\* threads are interchangeable: a new call takes the lowest idle one
FirstIdle(t) == Idle(t) /\ \A u \in Threads : u < t => ~Idle(u)

Top(t) == threads[t].stack[1]

\* the thread is suspended in fn and the call it awaits has settled
Resumes(t, fn) ==
    /\ threads[t].stack # <<>>
    /\ Top(t).fn = fn
    /\ threads[t].ret.kind # "none"

Threw(t) == threads[t].ret.kind = "throw"

\* a makeGraphRequest that sends the request whether or not there is a token
makeGraphRequest_noTokenCheck(th, s, endpoint) ==
    Push(th, [Frame("makeGraphRequest", "fetch", endpoint)
                EXCEPT !.auth = s.accessToken])

\* makeGraphRequest up to its first await: the token check and the fetch call
makeGraphRequest_enter(th, s, endpoint) ==
    IF s.accessToken = Null
      THEN Fail(th, "NotAuthenticated")
      ELSE Push(th, [Frame("makeGraphRequest", "fetch", endpoint)
                       EXCEPT !.auth = s.accessToken])

getSiteId_enter(th, s) ==
    IF s.siteId # Null
      THEN Value(th, s.siteId)
      ELSE makeGraphRequest_enter(Push(th, Frame("getSiteId", "awaitSite", "")),
                                  s, "site")

getListId_enter(th, s, name) ==
    IF MapHas(s.listIdCache, name)
      THEN Value(th, s.listIdCache[name])
      ELSE getSiteId_enter(Push(th, Frame("getListId", "awaitSiteId", name)), s)

getFieldMapping_enter(th, s, name) ==
    IF MapHas(s.fieldMappingCache, name)
      THEN Value(th, "mapping")
      ELSE getListId_enter(Push(th, Frame("getFieldMapping", "awaitListId", name)),
                           s, name)

getRecords_enter(th, s, name) ==
    getListId_enter(Push(th, Frame("getRecords", "awaitListId", name)), s, name)

updateRecord_enter(th, s, name, fields) ==
    getListId_enter(Push(th, [Frame("updateRecord", "awaitListId", name)
                                EXCEPT !.body = fields]),
                    s, name)

\* makeGraphRequest(endpoint, { method: 'PATCH', body: JSON.stringify(fields) })
\* up to its first await; JSON.stringify keeps every key of fields, a null
\* value as null
patchRequest_enter(th, s, fields) ==
    LET sent == makeGraphRequest_enter(th, s, "PATCH")
    IN  IF sent.ret.kind = "none"
          THEN [sent EXCEPT !.stack[1].body = fields]
          ELSE sent

deleteRecord_enter(th, s, name) ==
    getListId_enter(Push(th, Frame("deleteRecord", "awaitListId", name)), s, name)

(***************************************************************************)
(* Session                                                                 *)
(***************************************************************************)
uiVars == <<listName, listScreen, alert, started>>

\* authenticate(): the token exchange succeeded.  LoginScreen, which calls
\* it, is on screen only while there is no session.
authenticate ==
    /\ accessToken = Null
    /\ tokenSeq < MaxTokens
    /\ tokenSeq' = tokenSeq + 1
    /\ accessToken' = Token(tokenSeq + 1)
    /\ siteId' = Null
    /\ listIdCache' = EmptyMap
    /\ UNCHANGED <<fieldMappingCache, onSessionTimeoutCallback, callbackRuns,
                   threads, uiVars>>
    /\ UNCHANGED dataVars

\* the app registers its handler before any screen is shown
setOnSessionTimeout ==
    /\ ~onSessionTimeoutCallback
    /\ started = 0
    /\ onSessionTimeoutCallback' = TRUE
    /\ UNCHANGED <<accessToken, siteId, listIdCache, fieldMappingCache,
                   callbackRuns, tokenSeq, threads, uiVars>>
    /\ UNCHANGED dataVars

(***************************************************************************)
(* makeGraphRequest                                                        *)
(***************************************************************************)
Root(t) == IF threads[t].parent = 0 THEN t ELSE threads[t].parent

\* The HTTP response arrives and makeGraphRequest runs to its end.  (Reading
\* the error text is one more await; nothing is done between the arrival
\* and the end of that read, so the two are one step here.)
makeGraphRequest(t) ==
    /\ threads[t].stack # <<>>
    /\ Top(t).fn = "makeGraphRequest"
    /\ \E resp \in Responses :
         IF resp.status = 200
           THEN /\ threads' = [threads EXCEPT ![t] = Value(Pop(@), resp.payload)]
                /\ serverRecord' = IF Top(t).arg = "PATCH"
                                     THEN PatchFields(serverRecord, Top(t).body)
                                     ELSE serverRecord
                /\ UNCHANGED svcVars
           ELSE LET r == makeGraphRequestError(Service, resp)
                    failed == [threads EXCEPT ![t] = Fail(Pop(@), r.err)]
                IN  /\ SetService(r.svc)
                    /\ threads' = IF r.expired
                                    THEN [failed EXCEPT ![Root(t)].expired = TRUE]
                                    ELSE failed
                    /\ UNCHANGED serverRecord
    /\ UNCHANGED <<tokenSeq, uiVars>>
    /\ UNCHANGED <<recordVars, updateCalls, otherVars, columnRequests>>

(***************************************************************************)
(* getSiteId, getListId, getFieldMapping                                   *)
(***************************************************************************)
getSiteId(t) ==
    /\ Resumes(t, "getSiteId")
    /\ IF Threw(t)
         THEN /\ threads' = [threads EXCEPT ![t] = Fail(Pop(@), threads[t].ret.val)]
              /\ UNCHANGED siteId
       ELSE IF threads[t].ret.val = "empty"
         THEN /\ threads' = [threads EXCEPT ![t] = Fail(Pop(@), "SiteIdNotFound")]
              /\ UNCHANGED siteId
       ELSE /\ siteId' = SiteIdValue
            /\ threads' = [threads EXCEPT ![t] = Value(Pop(@), SiteIdValue)]
    /\ UNCHANGED <<accessToken, listIdCache, fieldMappingCache,
                   onSessionTimeoutCallback, callbackRuns, tokenSeq, uiVars>>
    /\ UNCHANGED dataVars

getListId(t) ==
    /\ Resumes(t, "getListId")
    /\ LET name == Top(t).arg
       IN  IF Threw(t)
             THEN /\ threads' = [threads EXCEPT ![t] = Fail(Pop(@), threads[t].ret.val)]
                  /\ UNCHANGED listIdCache
           ELSE IF Top(t).pc = "awaitSiteId"
             THEN /\ threads' = [threads EXCEPT ![t] =
                        makeGraphRequest_enter(SetPc(@, "awaitLists"), Service, "lists")]
                  /\ UNCHANGED listIdCache
           ELSE IF threads[t].ret.val = "empty"
             THEN /\ threads' = [threads EXCEPT ![t] = Fail(Pop(@), "ListNotFound")]
                  /\ UNCHANGED listIdCache
           ELSE /\ listIdCache' = MapSet(listIdCache, name, ListIdOf(name))
                /\ threads' = [threads EXCEPT ![t] = Value(Pop(@), ListIdOf(name))]
    /\ UNCHANGED <<accessToken, siteId, fieldMappingCache,
                   onSessionTimeoutCallback, callbackRuns, tokenSeq, uiVars>>
    /\ UNCHANGED dataVars

\* one more request in the log of the requests sent with a token
Count(log, token) ==
    MapSet(log, token, IF MapHas(log, token) THEN log[token] + 1 ELSE 1)

\* a getFieldMapping whose catch block throws the error on
getFieldMapping_rethrow(t) ==
    /\ Resumes(t, "getFieldMapping")
    /\ LET name == Top(t).arg
       IN  IF Threw(t)
             THEN /\ threads' = [threads EXCEPT ![t] =
                        Fail(Pop(@), threads[t].ret.val)]
                  /\ UNCHANGED <<fieldMappingCache, columnRequests>>
           ELSE IF Top(t).pc = "awaitListId"
             THEN /\ threads' = [threads EXCEPT ![t] =
                        getSiteId_enter(SetPc(@, "awaitSiteId"), Service)]
                  /\ UNCHANGED <<fieldMappingCache, columnRequests>>
           ELSE IF Top(t).pc = "awaitSiteId"
             THEN /\ threads' = [threads EXCEPT ![t] =
                        makeGraphRequest_enter(SetPc(@, "awaitColumns"), Service, "columns")]
                  /\ columnRequests' = IF accessToken = Null THEN columnRequests
                                        ELSE Count(columnRequests, accessToken)
                  /\ UNCHANGED fieldMappingCache
           ELSE /\ fieldMappingCache' = MapSet(fieldMappingCache, name,
                        IF threads[t].ret.val = "empty" THEN EmptyMap
                                                         ELSE ColumnMapping(name))
                /\ threads' = [threads EXCEPT ![t] = Value(Pop(@), "mapping")]
                /\ UNCHANGED columnRequests
    /\ UNCHANGED <<accessToken, siteId, listIdCache,
                   onSessionTimeoutCallback, callbackRuns, tokenSeq, uiVars>>
    /\ UNCHANGED <<recordVars, updateCalls, otherVars, serverRecord>>

\* services/sharepointService.ts: the body is one try block whose catch
\* caches and returns an empty mapping
getFieldMapping(t) ==
    /\ Resumes(t, "getFieldMapping")
    /\ LET name == Top(t).arg
       IN  IF Threw(t)
             THEN /\ fieldMappingCache' = MapSet(fieldMappingCache, name, EmptyMap)
                  /\ threads' = [threads EXCEPT ![t] = Value(Pop(@), "emptyMap")]
                  /\ UNCHANGED columnRequests
           ELSE IF Top(t).pc = "awaitListId"
             THEN /\ threads' = [threads EXCEPT ![t] =
                        getSiteId_enter(SetPc(@, "awaitSiteId"), Service)]
                  /\ UNCHANGED <<fieldMappingCache, columnRequests>>
           ELSE IF Top(t).pc = "awaitSiteId"
             THEN /\ threads' = [threads EXCEPT ![t] =
                        makeGraphRequest_enter(SetPc(@, "awaitColumns"), Service, "columns")]
                  /\ columnRequests' = IF accessToken = Null THEN columnRequests
                                        ELSE Count(columnRequests, accessToken)
                  /\ UNCHANGED fieldMappingCache
           ELSE /\ fieldMappingCache' = MapSet(fieldMappingCache, name,
                        IF threads[t].ret.val = "empty" THEN EmptyMap
                                                         ELSE ColumnMapping(name))
                /\ threads' = [threads EXCEPT ![t] = Value(Pop(@), "mapping")]
                /\ UNCHANGED columnRequests
    /\ UNCHANGED <<accessToken, siteId, listIdCache,
                   onSessionTimeoutCallback, callbackRuns, tokenSeq, uiVars>>
    /\ UNCHANGED <<recordVars, updateCalls, otherVars, serverRecord>>

(***************************************************************************)
(* updateRecord, deleteRecord                                              *)
(***************************************************************************)
updateRecord(t) ==
    /\ Resumes(t, "updateRecord")
    /\ threads' = [threads EXCEPT ![t] =
         IF Threw(t) THEN Fail(Pop(@), threads[t].ret.val)
         ELSE IF Top(t).pc = "awaitListId"
           THEN getSiteId_enter(SetPc(@, "awaitSiteId"), Service)
         ELSE IF Top(t).pc = "awaitSiteId"
           THEN patchRequest_enter(SetPc(@, "awaitPatch"), Service, Top(t).body)
         ELSE Value(Pop(@), "updated")]
    /\ UNCHANGED <<svcVars, tokenSeq, uiVars>>
    /\ UNCHANGED dataVars

deleteRecord(t) ==
    /\ Resumes(t, "deleteRecord")
    /\ threads' = [threads EXCEPT ![t] =
         IF Threw(t) THEN Fail(Pop(@), threads[t].ret.val)
         ELSE IF Top(t).pc = "awaitListId"
           THEN getSiteId_enter(SetPc(@, "awaitSiteId"), Service)
         ELSE IF Top(t).pc = "awaitSiteId"
           THEN makeGraphRequest_enter(SetPc(@, "awaitDelete"), Service, "DELETE")
         ELSE Value(Pop(@), "deleted")]
    /\ UNCHANGED <<svcVars, tokenSeq, uiVars>>
    /\ UNCHANGED dataVars

(***************************************************************************)
(* Fan-out: the async lambdas of a batch run as threads of their own,      *)
(* owned by the thread that awaits Promise.all.  The threads are set aside *)
(* when the items arrive (the ids, hence the number of lambdas, are known  *)
(* then) and start when the resolver reaches its map() call.               *)
(***************************************************************************)
IdleSet == {u \in Threads : Idle(u)}

LowestIdle(k) == {u \in IdleSet : Cardinality({v \in IdleSet : v < u}) < k}

Reserved(t, fn) ==
    [stack |-> <<Frame(fn, "reserved", "")>>, ret |-> NoRet, parent |-> t,
     expired |-> FALSE]

Finished(t) == [stack |-> <<>>, ret |-> NoRet, parent |-> t, expired |-> FALSE]

Children(t, fn) ==
    {c \in Threads : /\ threads[c].parent = t
                     /\ threads[c].stack # <<>>
                     /\ threads[c].stack[Len(threads[c].stack)].fn = fn}

AllSettled(t) == \A c \in Threads : threads[c].parent = t => threads[c].stack = <<>>

\* the lambda of resolveEmployeeNames up to its first await
fetchEmployee_enter(t, s, lists) ==
    LET base == [Reserved(t, "fetchEmployee") EXCEPT !.stack[1].lists = lists]
    IN  IF "Employees" \in lists
          THEN makeGraphRequest_enter(SetPc(base, "awaitEmployeesItem"), s, "item")
        ELSE IF "Access Cards" \in lists
          THEN makeGraphRequest_enter(SetPc(base, "awaitAccessCardsItem"), s, "item")
        ELSE Finished(t)

fetchEmployee(c) ==
    /\ Resumes(c, "fetchEmployee")
    /\ threads' = [threads EXCEPT ![c] =
         IF Top(c).pc = "awaitEmployeesItem" /\ Threw(c)
                                             /\ "Access Cards" \in Top(c).lists
           THEN makeGraphRequest_enter(SetPc(@, "awaitAccessCardsItem"), Service, "item")
           ELSE Finished(threads[c].parent)]
    /\ UNCHANGED <<svcVars, tokenSeq, uiVars>>
    /\ UNCHANGED dataVars

resolveEmployeeNames(t) ==
    /\ threads[t].stack # <<>>
    /\ Top(t).fn = "resolveEmployeeNames"
    /\ IF Top(t).pc = "awaitEmployeesListId"
         THEN /\ threads[t].ret.kind # "none"
              /\ threads' = [threads EXCEPT ![t] =
                   getListId_enter(
                     [SetPc(@, "awaitAccessCardsListId") EXCEPT !.stack[1].lists =
                        IF Threw(t) THEN {} ELSE {"Employees"}],
                     Service, "Access Cards")]
       ELSE IF Top(t).pc = "awaitAccessCardsListId"
         THEN /\ threads[t].ret.kind # "none"
              /\ LET lists == Top(t).lists \cup
                                (IF Threw(t) THEN {} ELSE {"Access Cards"})
                 IN  threads' = [u \in Threads |->
                        IF u = t THEN SetPc(threads[t], "awaitAll")
                        ELSE IF u \in Children(t, "fetchEmployee")
                          THEN fetchEmployee_enter(t, Service, lists)
                        ELSE threads[u]]
       ELSE /\ AllSettled(t)
            /\ threads' = [u \in Threads |->
                   IF u = t THEN Value(Pop(threads[t]), "void")
                   ELSE IF threads[u].parent = t THEN IdleThread
                   ELSE threads[u]]
    /\ UNCHANGED <<svcVars, tokenSeq, uiVars>>
    /\ UNCHANGED dataVars

\* the two lambdas of resolveAssigneeNames: one list-item request, one
\* users/<guid> request; every error is caught inside the lambda
fetchAssignee(c) ==
    /\ Resumes(c, "fetchAssignee")
    /\ threads' = [threads EXCEPT ![c] = Finished(threads[c].parent)]
    /\ UNCHANGED <<svcVars, tokenSeq, uiVars>>
    /\ UNCHANGED dataVars

fetchGraphUser(c) ==
    /\ Resumes(c, "fetchGraphUser")
    /\ threads' = [threads EXCEPT ![c] = Finished(threads[c].parent)]
    /\ UNCHANGED <<svcVars, tokenSeq, uiVars>>
    /\ UNCHANGED dataVars

\* resolveAssigneeNames from "Fetch any remaining unresolved GUIDs" on
GraphRound(t) ==
    [u \in Threads |->
        IF u = t
          THEN IF Children(t, "fetchGraphUser") = {}
                 THEN Value(Pop(threads[t]), "void")
                 ELSE SetPc(threads[t], "awaitAll2")
        ELSE IF u \in Children(t, "fetchGraphUser")
          THEN makeGraphRequest_enter(SetPc(threads[u], "awaitUser"), Service, "user")
        ELSE IF threads[u].parent = t THEN IdleThread
        ELSE threads[u]]

resolveAssigneeNames(t) ==
    /\ threads[t].stack # <<>>
    /\ Top(t).fn = "resolveAssigneeNames"
    /\ IF Top(t).pc = "awaitEmployeesListId"
         THEN /\ threads[t].ret.kind # "none"
              /\ IF Threw(t)
                   THEN threads' = GraphRound(t)
                   ELSE threads' = [u \in Threads |->
                          IF u = t THEN SetPc(threads[t], "awaitAll1")
                          ELSE IF u \in Children(t, "fetchAssignee")
                            THEN makeGraphRequest_enter(SetPc(threads[u], "awaitItem"),
                                                        Service, "item")
                          ELSE threads[u]]
       ELSE IF Top(t).pc = "awaitAll1"
         THEN /\ Children(t, "fetchAssignee") = {}
              /\ threads' = GraphRound(t)
       ELSE /\ AllSettled(t)
            /\ threads' = [u \in Threads |->
                   IF u = t THEN Value(Pop(threads[t]), "void")
                   ELSE IF threads[u].parent = t THEN IdleThread
                   ELSE threads[u]]
    /\ UNCHANGED <<svcVars, tokenSeq, uiVars>>
    /\ UNCHANGED dataVars

(***************************************************************************)
(* getRecords (src/services/sharepointService.ts)                          *)
(***************************************************************************)
getRecords(t) ==
    /\ Resumes(t, "getRecords")
    /\ LET name == Top(t).arg
       IN  IF Threw(t)
             THEN threads' = [threads EXCEPT ![t] = Fail(Pop(@), threads[t].ret.val)]
           ELSE IF Top(t).pc = "awaitListId"
             THEN threads' = [threads EXCEPT ![t] =
                     getSiteId_enter(SetPc(@, "awaitSiteId"), Service)]
           ELSE IF Top(t).pc = "awaitSiteId"
             THEN threads' = [threads EXCEPT ![t] =
                     getFieldMapping_enter(SetPc(@, "awaitFieldMapping"), Service, name)]
           ELSE IF Top(t).pc = "awaitFieldMapping"
             THEN threads' = [threads EXCEPT ![t] =
                     makeGraphRequest_enter(SetPc(@, "awaitItems"), Service, "items")]
           ELSE IF Top(t).pc = "awaitResolve" \/ threads[t].ret.val = "empty"
             THEN threads' = [threads EXCEPT ![t] = Value(Pop(@), "records")]
           ELSE IF name = "Access Cards"
             THEN \* k distinct integer EmployeeLookupId values in the records
                  \E k \in 0..Cardinality(IdleSet) :
                    threads' = [u \in Threads |->
                       IF u = t
                         THEN IF k = 0
                                THEN Value(SetPc(threads[t], "awaitResolve"), "void")
                                ELSE getListId_enter(
                                       Push(SetPc(threads[t], "awaitResolve"),
                                            Frame("resolveEmployeeNames",
                                                  "awaitEmployeesListId", "")),
                                       Service, "Employees")
                       ELSE IF u \in LowestIdle(k) THEN Reserved(t, "fetchEmployee")
                       ELSE threads[u]]
           ELSE \* Assets: ids left after the expanded objects and the employee
                \* cache were tried; k1 of them integers, k2 of them GUIDs
                \E remaining \in BOOLEAN, k1, k2 \in 0..Cardinality(IdleSet) :
                    /\ k1 + k2 <= Cardinality(IdleSet)
                    /\ ~remaining => k1 + k2 = 0
                    /\ threads' = [u \in Threads |->
                         IF u = t
                           THEN IF ~remaining
                                  THEN Value(SetPc(threads[t], "awaitResolve"), "void")
                                  ELSE getListId_enter(
                                         Push(SetPc(threads[t], "awaitResolve"),
                                              Frame("resolveAssigneeNames",
                                                    "awaitEmployeesListId", "")),
                                         Service, "Employees")
                         ELSE IF u \in LowestIdle(k1) THEN Reserved(t, "fetchAssignee")
                         ELSE IF u \in LowestIdle(k1 + k2) THEN Reserved(t, "fetchGraphUser")
                         ELSE threads[u]]
    /\ UNCHANGED <<svcVars, tokenSeq, uiVars>>
    /\ UNCHANGED dataVars

(***************************************************************************)
(* ListScreen.loadRecords (src/screens/ListScreen.tsx)                     *)
(***************************************************************************)
\* (onRefreshEmployees, which loadRecords awaits first for Assets, is an
\* optional prop; the screen is modelled without it)
StartOp(op) == Push(IdleThread, Frame(op, "await", listName))

CanStart(t) == FirstIdle(t) /\ started < budget

\* a run of loadRecords: each call is a closure of its own, told apart here
\* by the ordinal of the call
StartRun(run) ==
    Push(IdleThread, [Frame("loadRecords", "await", listName) EXCEPT !.run = run])

NoScreen ==
    [loading |-> FALSE, error |-> Null, records |-> "none",
     recordsRun |-> 0, errorRun |-> 0, lastRun |-> 0]

loadRecords_start(t) ==
    /\ CanStart(t)
    /\ started' = started + 1
    /\ listScreen' = [listScreen EXCEPT !.loading = TRUE, !.error = Null,
                                        !.errorRun = 0,
                                        !.lastRun = started + 1]
    /\ threads' = [threads EXCEPT ![t] =
            getRecords_enter(StartRun(started + 1), Service, listName)]
    /\ UNCHANGED <<svcVars, tokenSeq, listName, alert>>
    /\ UNCHANGED dataVars

loadRecords(t) ==
    /\ Resumes(t, "loadRecords")
    /\ IF ~Threw(t)
         THEN /\ listScreen' = [listScreen EXCEPT !.records = "loaded",
                                                  !.recordsRun = Top(t).run,
                                                  !.loading = FALSE]
              /\ alert' = "none"
       ELSE IF threads[t].ret.val = "SessionTimeoutError"
         THEN /\ listScreen' = [listScreen EXCEPT !.error = "Session expired",
                                                  !.errorRun = Top(t).run,
                                                  !.loading = FALSE]
              /\ alert' = "none"
       ELSE /\ listScreen' = [listScreen EXCEPT !.error = threads[t].ret.val,
                                                !.errorRun = Top(t).run,
                                                !.loading = FALSE]
            /\ alert' = "Error"
    /\ threads' = [threads EXCEPT ![t] = IdleThread]
    /\ UNCHANGED <<svcVars, tokenSeq, listName, started>>
    /\ UNCHANGED dataVars

(***************************************************************************)
(* RecordView handlers (src/unnamed/part_000)                              *)
(***************************************************************************)
\* the catch block shared by the RecordView handlers: a SessionTimeoutError
\* returns silently, any other error is shown
RecordViewAlert(ret) ==
    IF ret.kind = "value" THEN "Success"
    ELSE IF ret.val = "SessionTimeoutError" THEN "none"
    ELSE "Error"

\* (handleSave is behind the Save button, which is rendered only while
\* isEditing is true, and nothing sets isEditing to true: it never runs.)

\* the id of the employee's item in the User Information List
UserItemId == "17"

AssignHandler(name) ==
    IF name = "Access Cards" THEN "handleAssignAccessCard"
                             ELSE "handleAssignAsset"

UnassignHandler(name) ==
    IF name = "Access Cards" THEN "handleUnassignAccessCard"
                             ELSE "handleUnassignAsset"

\* an assignment that sets the lookup field alone
AssignFields_lookupOnly(name, sharePointUserId) ==
    IF name = "Access Cards"
      THEN [EmployeeLookupId |-> sharePointUserId]
      ELSE [field_2LookupId |-> sharePointUserId]

\* the fields argument of the updateRecord call of the assign handlers
AssignFields(name, sharePointUserId) ==
    IF name = "Access Cards"
      THEN [EmployeeLookupId |-> sharePointUserId, CardStatus |-> "Assigned"]
      ELSE [field_2LookupId |-> sharePointUserId, DeviceStatus |-> "Assigned"]

\* an unassignment that resets the status alone
UnassignFields_statusOnly(name) ==
    IF name = "Access Cards" THEN [CardStatus |-> "Available"]
                             ELSE [DeviceStatus |-> "Available"]

\* the fields argument of the updateRecord call of the unassign handlers
UnassignFields(name) ==
    IF name = "Access Cards"
      THEN [EmployeeLookupId |-> Null, CardStatus |-> "Available"]
      ELSE [field_2LookupId |-> Null, DeviceStatus |-> "Available"]

\* resolveSharePointUserId(idOrEmail) up to its first await: a scan of the
\* User Information List (the pages of the scan are one request here)
resolveSharePointUserId_enter(th, s, idOrEmail) ==
    makeGraphRequest_enter(
        Push(th, Frame("resolveSharePointUserId", "awaitPage", idOrEmail)),
        s, "User Information List")

\* it returns the id of the matching item, or null when no item matches; an
\* error of the request is either caught (null) or thrown to the caller
resolveSharePointUserId(t) ==
    /\ Resumes(t, "resolveSharePointUserId")
    /\ \E caught \in BOOLEAN :
         threads' = [threads EXCEPT ![t] =
            IF Threw(t)
              THEN IF caught THEN Value(Pop(@), Null)
                             ELSE Fail(Pop(@), threads[t].ret.val)
            ELSE IF threads[t].ret.val = "empty" THEN Value(Pop(@), Null)
            ELSE Value(Pop(@), UserItemId)]
    /\ UNCHANGED <<svcVars, tokenSeq, uiVars>>
    /\ UNCHANGED dataVars

\* a test that passes whatever the resolution returned
IsResolved_any(ret) == ret.kind = "value"

\* if (sharePointUserId) ..., if (sharePointUserIdByEmail) ...
IsResolved(ret) == ret.kind = "value" /\ ret.val # Null

\* an assign handler from the tap on an employee of the modal to its first
\* await: the employee is looked up in the employees prop, the method is
\* tested for, the id is resolved
handleAssign_start(t) ==
    /\ CanStart(t)
    /\ started' = started + 1
    /\ updateCalls' = [updateCalls EXCEPT ![t] = <<>>]
    /\ \E found, available \in BOOLEAN :
         IF ~found
           THEN /\ alert' = "Employee not found"
                /\ UNCHANGED threads
         ELSE IF ~available
           THEN /\ alert' = "Assignment feature not available"
                /\ UNCHANGED threads
         ELSE /\ threads' = [threads EXCEPT ![t] =
                    resolveSharePointUserId_enter(
                        SetPc(StartOp(AssignHandler(listName)), "awaitUserId"),
                        Service, "employeeId")]
              /\ UNCHANGED alert
    /\ UNCHANGED <<svcVars, tokenSeq, listName, listScreen>>
    /\ UNCHANGED <<recordVars, otherVars, serverVars>>

\* an assign handler from one await to the next
handleAssign(t, fn) ==
    /\ Resumes(t, fn)
    /\ LET ret == threads[t].ret
           name == Top(t).arg
           fields == AssignFields(name, ret.val)
           GiveUp == /\ alert' = "Could not resolve employee"
                     /\ threads' = [threads EXCEPT ![t] = IdleThread]
                     /\ UNCHANGED updateCalls
       IN  IF Threw(t) \/ Top(t).pc = "awaitUpdate"
             THEN /\ alert' = RecordViewAlert(ret)
                  /\ threads' = [threads EXCEPT ![t] = IdleThread]
                  /\ UNCHANGED updateCalls
           ELSE IF IsResolved(ret)
             THEN /\ threads' = [threads EXCEPT ![t] =
                        updateRecord_enter(SetPc(@, "awaitUpdate"), Service,
                                           name, fields)]
                  /\ updateCalls' = [updateCalls EXCEPT ![t] = Append(@, fields)]
                  /\ UNCHANGED alert
           ELSE IF Top(t).pc = "awaitUserId"
             THEN \E hasMail \in BOOLEAN :
                    IF hasMail
                      THEN /\ threads' = [threads EXCEPT ![t] =
                                 resolveSharePointUserId_enter(
                                     SetPc(@, "awaitUserIdByEmail"), Service,
                                     "employee.mail")]
                           /\ UNCHANGED <<alert, updateCalls>>
                      ELSE GiveUp
           ELSE GiveUp
    /\ UNCHANGED <<svcVars, tokenSeq, listName, listScreen, started>>
    /\ UNCHANGED <<recordVars, otherVars, serverVars>>

handleAssignAccessCard_start(t) ==
    listName = "Access Cards" /\ handleAssign_start(t)

handleAssignAccessCard(t) ==
    listName = "Access Cards" /\ handleAssign(t, "handleAssignAccessCard")

handleAssignAsset_start(t) == listName = "Assets" /\ handleAssign_start(t)

handleAssignAsset(t) ==
    listName = "Assets" /\ handleAssign(t, "handleAssignAsset")

\* an unassign handler from the "Unassign" button of its confirmation to the
\* updateRecord call
handleUnassign_start(t) ==
    /\ CanStart(t)
    /\ started' = started + 1
    /\ updateCalls' = [updateCalls EXCEPT ![t] = <<UnassignFields(listName)>>]
    /\ threads' = [threads EXCEPT ![t] =
            updateRecord_enter(StartOp(UnassignHandler(listName)), Service,
                               listName, UnassignFields(listName))]
    /\ UNCHANGED <<svcVars, tokenSeq, listName, listScreen, alert>>
    /\ UNCHANGED <<recordVars, otherVars, serverVars>>

handleUnassign(t, fn) ==
    /\ Resumes(t, fn)
    /\ alert' = RecordViewAlert(threads[t].ret)
    /\ threads' = [threads EXCEPT ![t] = IdleThread]
    /\ UNCHANGED <<svcVars, tokenSeq, listName, listScreen, started>>
    /\ UNCHANGED dataVars

handleUnassignAccessCard_start(t) ==
    listName = "Access Cards" /\ handleUnassign_start(t)

handleUnassignAccessCard(t) ==
    listName = "Access Cards" /\ handleUnassign(t, "handleUnassignAccessCard")

handleUnassignAsset_start(t) == listName = "Assets" /\ handleUnassign_start(t)

handleUnassignAsset(t) ==
    listName = "Assets" /\ handleUnassign(t, "handleUnassignAsset")

handleDelete_start(t) ==
    /\ CanStart(t)
    /\ started' = started + 1
    /\ threads' = [threads EXCEPT ![t] =
            deleteRecord_enter(StartOp("handleDelete"), Service, listName)]
    /\ UNCHANGED <<svcVars, tokenSeq, listName, listScreen, alert>>
    /\ UNCHANGED dataVars

\* (the success alert of handleDelete is shown from a timer, after navigation)
handleDelete(t) ==
    /\ Resumes(t, "handleDelete")
    /\ alert' = RecordViewAlert(threads[t].ret)
    /\ threads' = [threads EXCEPT ![t] = IdleThread]
    /\ UNCHANGED <<svcVars, tokenSeq, listName, listScreen, started>>
    /\ UNCHANGED dataVars

SessionStart ==
    /\ accessToken = Null
    /\ siteId = Null
    /\ listIdCache = EmptyMap
    /\ fieldMappingCache = EmptyMap
    /\ onSessionTimeoutCallback = FALSE
    /\ callbackRuns = {}
    /\ tokenSeq = 0
    /\ threads = [t \in Threads |-> IdleThread]
    /\ listScreen = NoScreen
    /\ alert = "none"
    /\ started = 0

Copies == {"services", "LoginScreen"}

NotBuilt == [built |-> FALSE, mapping |-> EmptyMap, lookupFields |-> <<>>]

NotRun == [done |-> FALSE, value |-> <<>>]

NoDirectory == Directory({}, Fails, Fails, Fails)

\* a lambda that has not been called
NoCall == [pc |-> "none", name |-> ""]

\* no resolver is running
IdleResolver ==
    [pc |-> "idle", records |-> <<>>, cache |-> EmptyMap, toFetch |-> {},
     lists |-> {}, run |-> 1, previous |-> NotRun]

(***************************************************************************)
(* The list screen's derived lists (src/screens/ListScreen.tsx).  A text   *)
(* is the sequence of its characters.  A record holds the members the      *)
(* screen reads: field_0 (the category), lookup (field_2LookupId or        *)
(* EmployeeLookupId) and number (AssetID or AccessCardNo); <<>> is a       *)
(* member that is missing, null or ''.  The records carry no 'Device Type' *)
(* member and no other member whose name resembles AssetID / AccessCardNo. *)
(***************************************************************************)
All == <<"A", "l", "l">>

Other == <<"O", "t", "h", "e", "r">>

DigitText == <<"0", "1", "2", "3", "4", "5", "6", "7", "8", "9">>

LowerText ==
    <<"a", "b", "c", "d", "e", "f", "g", "h", "i", "j", "k", "l", "m",
      "n", "o", "p", "q", "r", "s", "t", "u", "v", "w", "x", "y", "z">>

UpperText ==
    <<"A", "B", "C", "D", "E", "F", "G", "H", "I", "J", "K", "L", "M",
      "N", "O", "P", "Q", "R", "S", "T", "U", "V", "W", "X", "Y", "Z">>

IndexIn(text, c) == CHOOSE i \in 1..Len(text) : text[i] = c

IsIn(text, c) == \E i \in 1..Len(text) : text[i] = c

lowerChar(c) == IF IsIn(UpperText, c) THEN LowerText[IndexIn(UpperText, c)] ELSE c

\* String.prototype.toLowerCase
toLowerCase(text) == [i \in 1..Len(text) |-> lowerChar(text[i])]

RECURSIVE trimStart(_)
trimStart(text) ==
    IF text # <<>> /\ Head(text) = " " THEN trimStart(Tail(text)) ELSE text

RECURSIVE trimEnd(_)
trimEnd(text) ==
    IF text # <<>> /\ text[Len(text)] = " "
      THEN trimEnd(SubSeq(text, 1, Len(text) - 1))
      ELSE text

\* String.prototype.trim
trim(text) == trimEnd(trimStart(text))

\* String.prototype.includes
includes(text, term) ==
    \E i \in 0..(Len(text) - Len(term)) : SubSeq(text, i + 1, i + Len(term)) = term

\* the digits a text starts with
RECURSIVE digitRun(_)
digitRun(text) ==
    IF text # <<>> /\ IsIn(DigitText, Head(text))
      THEN <<Head(text)>> \o digitRun(Tail(text))
      ELSE <<>>

RECURSIVE numberOf(_)
numberOf(digits) ==
    IF digits = <<>> THEN 0
    ELSE 10 * numberOf(SubSeq(digits, 1, Len(digits) - 1))
           + (IndexIn(DigitText, digits[Len(digits)]) - 1)

NaN == [nan |-> TRUE, value |-> 0]

\* parseInt(text, 10): leading white space, a sign, then the digits up to
\* the first character that is not one; NaN when there is no digit
parseInt(text) ==
    LET t == trimStart(text)
        signed == t # <<>> /\ Head(t) \in {"-", "+"}
        run == digitRun(IF signed THEN Tail(t) ELSE t)
    IN  IF run = <<>> THEN NaN
        ELSE [nan |-> FALSE,
              value |-> IF signed /\ Head(t) = "-" THEN 0 - numberOf(run)
                                                   ELSE numberOf(run)]

isNaN(n) == n.nan

\* the place of a character in the collation at base strength: white space
\* and punctuation, then the digits, then the letters whatever their case
collationRank(c) ==
    IF c = " " THEN 0
    ELSE IF c = "-" THEN 1
    ELSE IF c = "+" THEN 2
    ELSE IF IsIn(DigitText, c) THEN 10 + IndexIn(DigitText, c)
    ELSE IF IsIn(LowerText, lowerChar(c)) THEN 30 + IndexIn(LowerText, lowerChar(c))
    ELSE 60

\* a.localeCompare(b, undefined, { numeric: true, sensitivity: 'base' }):
\* runs of digits compare as numbers, everything else character by character
RECURSIVE localeCompare(_, _)
localeCompare(a, b) ==
    IF a = <<>> /\ b = <<>> THEN 0
    ELSE IF a = <<>> THEN -1
    ELSE IF b = <<>> THEN 1
    ELSE IF IsIn(DigitText, Head(a)) /\ IsIn(DigitText, Head(b))
      THEN LET ra == digitRun(a)
               rb == digitRun(b)
           IN  IF numberOf(ra) < numberOf(rb) THEN -1
               ELSE IF numberOf(ra) > numberOf(rb) THEN 1
               ELSE localeCompare(SubSeq(a, Len(ra) + 1, Len(a)),
                                  SubSeq(b, Len(rb) + 1, Len(b)))
    ELSE IF collationRank(Head(a)) < collationRank(Head(b)) THEN -1
    ELSE IF collationRank(Head(a)) > collationRank(Head(b)) THEN 1
    ELSE localeCompare(Tail(a), Tail(b))

\* the members of a record that matchesSearch goes through
SearchedValues(rec) == {rec.field_0, rec.lookup, rec.number}

matchesSearch(rec, query) ==
    IF trim(query) = <<>> THEN TRUE
    ELSE LET searchTerm == trim(toLowerCase(query))
         IN  \E value \in SearchedValues(rec) :
                 value # <<>> /\ includes(toLowerCase(value), searchTerm)

\* record['field_0'] || record['Device Type'] || fallback
categoryOf(rec, fallback) == IF rec.field_0 # <<>> THEN rec.field_0 ELSE fallback

\* one turn of records.forEach in categoryCounts
countRecord(counts, rec) ==
    LET categoryKey == trim(categoryOf(rec, Other))
    IN  IF categoryKey # <<>>
          THEN MapSet(counts, categoryKey,
                      (IF MapHas(counts, categoryKey) THEN counts[categoryKey] ELSE 0) + 1)
          ELSE counts

RECURSIVE countRecords(_, _)
countRecords(counts, recs) ==
    IF recs = <<>> THEN counts
    ELSE countRecords(countRecord(counts, Head(recs)), Tail(recs))

NoCounts == [k \in {} |-> 0]

categoryCounts(name, recs) ==
    IF name # "Assets" THEN NoCounts
    ELSE countRecords(MapSet(NoCounts, All, Len(recs)), recs)

\* a category filter that takes a record without a category for 'Other',
\* as categoryCounts does
categoryFilter_otherAsCounted(rec, selected) == trim(categoryOf(rec, Other)) = selected

\* the category filter of filteredRecords
categoryFilter(rec, selected) == trim(categoryOf(rec, <<>>)) = selected

filteredRecords(name, recs, query, selected) ==
    LET filtered == SelectSeq(recs, LAMBDA rec : matchesSearch(rec, query))
    IN  IF name = "Assets" /\ selected # All
          THEN SelectSeq(filtered, LAMBDA rec : categoryFilter(rec, selected))
          ELSE filtered

\* getFieldValue(record, ['AssetID']) / getFieldValue(record, ['AccessCardNo'])
\* on a record of the model: the trimmed value, '-' when there is none
getFieldValue(rec) == IF trim(rec.number) = <<>> THEN <<"-">> ELSE trim(rec.number)

\* !a[lookup] || a[lookup] === null || ... === ''
isAvailable(rec) == rec.lookup = <<>>

\* a comparator that looks at the number alone
compare_numberOnly(a, b) ==
    LET numA == parseInt(getFieldValue(a))
        numB == parseInt(getFieldValue(b))
    IN  IF ~isNaN(numA) /\ ~isNaN(numB) THEN numA.value - numB.value
        ELSE localeCompare(getFieldValue(a), getFieldValue(b))

\* the comparator of sortedRecords
compare(a, b) ==
    IF isAvailable(a) /\ ~isAvailable(b) THEN 1
    ELSE IF ~isAvailable(a) /\ isAvailable(b) THEN -1
    ELSE LET numA == parseInt(getFieldValue(a))
             numB == parseInt(getFieldValue(b))
         IN  IF ~isNaN(numA) /\ ~isNaN(numB) THEN numA.value - numB.value
             ELSE localeCompare(getFieldValue(a), getFieldValue(b))

\* Array.prototype.sort on a short array: a stable insertion sort
RECURSIVE insert(_, _)
insert(sorted, rec) ==
    IF sorted = <<>> \/ compare(sorted[Len(sorted)], rec) <= 0
      THEN Append(sorted, rec)
      ELSE Append(insert(SubSeq(sorted, 1, Len(sorted) - 1), rec),
                  sorted[Len(sorted)])

RECURSIVE sort(_)
sort(recs) ==
    IF recs = <<>> THEN <<>>
    ELSE insert(sort(SubSeq(recs, 1, Len(recs) - 1)), recs[Len(recs)])

sortedRecords(name, filtered) ==
    IF name \in {"Assets", "Access Cards"} THEN sort(filtered) ELSE filtered

\* one render of the screen: the three memoised lists are recomputed
Render(name, recs, query, selected) ==
    [records |-> recs,
     searchQuery |-> query,
     selectedCategory |-> selected,
     categoryCounts |-> categoryCounts(name, recs),
     filteredRecords |-> filteredRecords(name, recs, query, selected),
     sortedRecords |-> sortedRecords(name, filteredRecords(name, recs, query, selected))]

\* the list screen is not on
NoListView ==
    [records |-> <<>>, searchQuery |-> <<>>, selectedCategory |-> All,
     categoryCounts |-> NoCounts, filteredRecords |-> <<>>,
     sortedRecords |-> <<>>]

\* getAllUsers has not been called
NoPaging ==
    [pc |-> "idle", lastPage |-> 0, endpoint |-> 0, pageCount |-> 0,
     nextLink |-> 0, allUsers |-> <<>>, sent |-> 0, returned |-> <<>>,
     failed |-> FALSE]

OthersIdle ==
    /\ userPaging = NoPaging
    /\ listView = NoListView

ResolverStart ==
    /\ updateCalls = [t \in Threads |-> <<>>]
    /\ serverRecord = AvailableRecord(listName)
    /\ columnRequests = EmptyMap
    /\ resolver = IdleResolver
    /\ calls = [id \in IdTexts |-> NoCall]
    /\ requests = [id \in IdTexts |-> <<>>]

\* the app at its start, with the number of UI handlers the run goes on to
InitOps(ops) ==
    /\ budget = ops
    /\ OthersIdle
    /\ SessionStart
    /\ listName \in UiLists
    /\ columns = <<>>
    /\ fieldMapping = NotBuilt
    /\ record = <<>>
    /\ normalized = [c \in Copies |-> NotRun]
    /\ copy = "services"
    /\ items = <<>>
    /\ directory = NoDirectory
    /\ cachedEmployees = <<>>
    /\ result = NotRun
    /\ shown = NotRun
    /\ ResolverStart

Init == InitOps(MaxOps)

sessionVars == <<accessToken, siteId, listIdCache, fieldMappingCache,
                 onSessionTimeoutCallback, callbackRuns, tokenSeq, threads,
                 listName, listScreen, alert, started>>

vars == <<sessionVars, dataVars>>

Next ==
    \/ authenticate
    \/ setOnSessionTimeout
    \/ \E t \in Threads : makeGraphRequest(t)
    \/ \E t \in Threads : getSiteId(t)
    \/ \E t \in Threads : getListId(t)
    \/ \E t \in Threads : getFieldMapping(t)
    \/ \E t \in Threads : getRecords(t)
    \/ \E t \in Threads : resolveEmployeeNames(t)
    \/ \E t \in Threads : fetchEmployee(t)
    \/ \E t \in Threads : resolveAssigneeNames(t)
    \/ \E t \in Threads : fetchAssignee(t)
    \/ \E t \in Threads : fetchGraphUser(t)
    \/ \E t \in Threads : updateRecord(t)
    \/ \E t \in Threads : deleteRecord(t)
    \/ \E t \in Threads : loadRecords_start(t)
    \/ \E t \in Threads : loadRecords(t)
    \/ \E t \in Threads : resolveSharePointUserId(t)
    \/ \E t \in Threads : handleAssignAccessCard_start(t)
    \/ \E t \in Threads : handleAssignAccessCard(t)
    \/ \E t \in Threads : handleAssignAsset_start(t)
    \/ \E t \in Threads : handleAssignAsset(t)
    \/ \E t \in Threads : handleUnassignAccessCard_start(t)
    \/ \E t \in Threads : handleUnassignAccessCard(t)
    \/ \E t \in Threads : handleUnassignAsset_start(t)
    \/ \E t \in Threads : handleUnassignAsset(t)
    \/ \E t \in Threads : handleDelete_start(t)
    \/ \E t \in Threads : handleDelete(t)

Spec == Init /\ [][Next]_vars

(***************************************************************************)
(* SpecOverlap: the same machine with two UI handlers in one run, one      *)
(* after the other or overlapping                                          *)
(***************************************************************************)
InitOverlap == InitOps(MaxOverlap)

SpecOverlap == InitOverlap /\ [][Next]_vars

(***************************************************************************)
(* SpecNorm: normalizeFieldNames                                           *)
(***************************************************************************)
ColumnPool ==
    {Column(field_2LookupId, Assignee, TRUE),
     Column(field_2, Assignee, TRUE),
     Column(Assignee, Owner, FALSE)}

KeyPool == {field_2LookupId, field_2, Assignee, Owner}

ValuePool == {Num("5"), Str("Bob"), Person("5", "Bob")}

\* the sequences of at most n different elements of S
DistinctSeqs(S, n) ==
    UNION {{q \in [1..m -> S] : \A i, j \in 1..m : i # j => q[i] # q[j]} :
              m \in 0..n}

RawRecords ==
    UNION {{r \in [1..m -> [key : KeyPool, value : ValuePool]] :
               \A i, j \in 1..m : i # j => r[i].key # r[j].key} :
              m \in 0..MaxFields}

InitNorm ==
    /\ budget = MaxOps
    /\ OthersIdle
    /\ SessionStart
    /\ listName = "Assets"
    /\ columns \in DistinctSeqs(ColumnPool, MaxColumns)
    /\ fieldMapping = NotBuilt
    /\ record \in RawRecords
    /\ normalized = [c \in Copies |-> NotRun]
    /\ copy = "services"
    /\ items = <<>>
    /\ directory = NoDirectory
    /\ cachedEmployees = <<>>
    /\ result = NotRun
    /\ shown = NotRun
    /\ ResolverStart

\* getFieldMapping once the columns response is there
buildFieldMapping ==
    /\ ~fieldMapping.built
    /\ fieldMapping' = [built |-> TRUE] @@ getFieldMapping_columns(columns)
    /\ UNCHANGED <<sessionVars, columns, record, normalized, copy, items,
                   directory, cachedEmployees, result, shown, resolveVars,
                   updateCalls, otherVars, serverVars>>

normalizeRecord(c) ==
    /\ fieldMapping.built
    /\ ~normalized[c].done
    /\ normalized' = [normalized EXCEPT ![c] =
          [done |-> TRUE,
           value |-> IF c = "services"
                       THEN normalizeFieldNames(record, fieldMapping.mapping)
                       ELSE normalizeFieldNames_LoginScreen(record,
                                                            fieldMapping.mapping)]]
    /\ UNCHANGED <<sessionVars, columns, fieldMapping, record, copy, items,
                   directory, cachedEmployees, result, shown, resolveVars,
                   updateCalls, otherVars, serverVars>>

NextNorm ==
    \/ buildFieldMapping
    \/ \E c \in Copies : normalizeRecord(c)

SpecNorm == InitNorm /\ [][NextNorm]_vars

(***************************************************************************)
(* SpecRecords: one items response through getRecords to the list screen   *)
(***************************************************************************)
ColumnLists(name) ==
    IF name = "Assets"
      THEN {<<>>, ServerColumns(name), <<Column(field_2, Assignee, TRUE)>>}
      ELSE {<<>>, ServerColumns(name), <<Column(Employee, Employee, TRUE)>>}

\* the fields of an item
ItemPool(name) ==
    IF name = "Assets"
      THEN {<<>>,
            <<[key |-> field_2LookupId, value |-> Str("5")]>>,
            <<[key |-> field_2LookupId, value |-> Str(LetterGuid)]>>,
            <<[key |-> field_2LookupId, value |-> Str(DigitGuid)]>>,
            <<[key |-> field_2LookupId, value |-> Str("5")],
              [key |-> field_2, value |-> Person("5", "Zed")]>>,
            <<[key |-> field_2LookupId, value |-> Num("7")],
              [key |-> field_2, value |-> Person("9", "Zoe")]>>,
            <<[key |-> field_2LookupId, value |-> Str("5")],
              [key |-> field_2, value |-> PersonWithEmail("9", OtherEmail, "Zoe")]>>,
            <<[key |-> field_2LookupId, value |-> Str("5")],
              [key |-> field_2, value |-> PersonWithEmail("", OtherEmail, "Zoe")]>>,
            <<[key |-> field_2LookupId, value |-> Str(DigitGuid)],
              [key |-> field_2, value |-> Person(UpperDigitGuid, "Zed")]>>,
            <<[key |-> AssigneeLookupId, value |-> Str("5")]>>}
      ELSE {<<>>,
            <<[key |-> EmployeeLookupId, value |-> Str("5")]>>,
            <<[key |-> EmployeeLookupId, value |-> Num("7")]>>,
            <<[key |-> EmployeeLookupId, value |-> Str(LetterGuid)]>>,
            <<[key |-> EmployeeLookupId, value |-> Str(DigitGuid)]>>,
            <<[key |-> EmployeeLookupId, value |-> Str("5")],
              [key |-> Employee, value |-> Person("5", "Zed")]>>,
            <<[key |-> EmployeeLookupId, value |-> Str("5")],
              [key |-> Employee, value |-> Person("9", "Zoe")]>>,
            <<[key |-> EmployeeLookupId, value |-> Str(LetterGuid)],
              [key |-> Employee, value |-> Person(LetterGuid, "Zed")]>>}

\* the names of the model tell where a name comes from: Bob is the name of
\* Employees item 5, Cat that of Access Cards item 5, Eve what users/<guid>
\* answers, Ann the cached employee with the GUID, Ian the cached employee
\* with the integer Id, Zed the name of an expanded object whose id is the
\* lookup id of its record, Zoe that of an expanded object of somebody else
Names == {"Bob", "Cat", "Eve", "Ann", "Ian", "Zed", "Zoe"}

Directories(name) ==
    {Directory(lists, item5, card5, user) :
        lists \in {{}, {"Employees", "Access Cards"}, {"Access Cards"}},
        item5 \in {Fails, "", "Bob"},
        card5 \in IF name = "Access Cards" THEN {Fails, "Cat"} ELSE {Fails},
        user \in {Fails, "Eve"}}

EmployeeLists ==
    {<<>>,
     <<CachedEmployee(DigitGuid, "", "", "Ann")>>,
     <<CachedEmployee("5", "", "", "Ian")>>,
     <<CachedEmployee("9", "5", OtherEmail, "Ian")>>}

InitRecords ==
    /\ budget = MaxOps
    /\ OthersIdle
    /\ SessionStart
    /\ listName \in UiLists
    /\ columns \in ColumnLists(listName)
    /\ fieldMapping = NotBuilt
    /\ record = <<>>
    /\ normalized = [c \in Copies |-> NotRun]
    /\ copy \in Copies
    /\ items \in UNION {[1..m -> ItemPool(listName)] : m \in 1..MaxRecords}
    /\ directory \in Directories(listName)
    /\ cachedEmployees \in EmployeeLists
    /\ result = NotRun
    /\ shown = NotRun
    /\ ResolverStart

\* getRecords from the items response to its return value
returnRecords ==
    /\ fieldMapping.built
    /\ ~result.done
    /\ result' =
          [done |-> TRUE,
           value |-> IF copy = "services"
                       THEN getRecords_records(listName, items, fieldMapping,
                                               directory, cachedEmployees)
                       ELSE getRecords_records_LoginScreen(listName, items,
                                                           fieldMapping, directory,
                                                           cachedEmployees)]
    /\ UNCHANGED <<sessionVars, columns, fieldMapping, record, normalized, copy,
                   items, directory, cachedEmployees, shown, resolveVars,
                   updateCalls, otherVars, serverVars>>

\* ListScreen renders the records it was given
renderItem ==
    /\ result.done
    /\ ~shown.done
    /\ shown' =
          [done |-> TRUE,
           value |-> IF listName = "Access Cards"
                       THEN MapRecords(renderAccessCardRecord, result.value)
                       ELSE MapRecords(renderAssetRecord, result.value)]
    /\ UNCHANGED <<sessionVars, columns, fieldMapping, record, normalized, copy,
                   items, directory, cachedEmployees, result, resolveVars,
                   updateCalls, otherVars, serverVars>>

NextRecords ==
    \/ buildFieldMapping
    \/ returnRecords
    \/ renderItem

SpecRecords == InitRecords /\ [][NextRecords]_vars

(***************************************************************************)
(* SpecResolve: resolveEmployeeNames and resolveAssigneeNames              *)
(* (src/services/sharepointService.ts) with their identity requests in     *)
(* flight.  The lambdas of a fan-out are called one after the other and    *)
(* each runs up to its first await, so the first requests of a round are   *)
(* all sent in one step; the responses arrive one at a time, in any order. *)
(* getListId is answered from directory.lists.                             *)
(***************************************************************************)
\* the answer to a request that ends the session
Expired == "<401>"

SessionEnds == [status |-> 401, body |-> NoBody, payload |-> "none"]

Settled(name) == [pc |-> "settled", name |-> name]

Awaiting(pc) == [pc |-> pc, name |-> ""]

\* the lambda is suspended at a request
InFlight(call) == call.pc \notin {"none", "settled"}

Endpoint(pc) ==
    IF pc = "awaitEmployeesItem" THEN "Employees"
    ELSE IF pc = "awaitAccessCardsItem" THEN "Access Cards"
    ELSE "users"

\* the requests sent so far, once the lambdas have gone from before to after
Sent(before, after) ==
    [id \in IdTexts |->
        IF InFlight(after[id]) /\ after[id] # before[id]
          THEN Append(requests[id], Endpoint(after[id].pc))
          ELSE requests[id]]

\* the service once makeGraphRequest has read the answer
Answered(s, answer) ==
    IF answer = Expired THEN makeGraphRequestError(s, SessionEnds).svc ELSE s

\* records.map(item => normalizeFieldNames({ Id: item.id, ...item.fields }))
itemRecords(its, info) ==
    LET Normalize(r) == normalizeFieldNames(r, info.mapping)
    IN  MapRecords(Normalize, [i \in 1..Len(its) |-> ItemRecord(its, i)])

\* a barrier that lets go as soon as one lambda has settled
PromiseAll_race == \E id \in IdTexts : calls[id].pc = "settled"

\* await Promise.all(fetchPromises)
PromiseAll == \A id \in IdTexts : ~InFlight(calls[id])

resolveFrame == <<tokenSeq, threads, uiVars, columns, fieldMapping, record,
                  normalized, copy, items, directory, cachedEmployees, shown,
                  updateCalls, otherVars, serverVars>>

\* the resolver returns and getRecords returns the records
Return(recs) ==
    /\ resolver' = [resolver EXCEPT !.pc = "done", !.records = recs]
    /\ result' = [done |-> TRUE, value |-> recs]

\* the lambda of resolveEmployeeNames from "Try Access Cards list" on
fetchEmployee_cards(s, lists) ==
    IF "Access Cards" \in lists /\ s.accessToken # Null
      THEN Awaiting("awaitAccessCardsItem")
      ELSE Settled("")

\* the lambda of resolveEmployeeNames up to its first await
fetchEmployee_lambda(s, lists) ==
    IF "Employees" \in lists /\ s.accessToken # Null
      THEN Awaiting("awaitEmployeesItem")
      ELSE fetchEmployee_cards(s, lists)

\* the lambda of the Employees round of resolveAssigneeNames up to its await
fetchAssignee_lambda(lookupId, s, emps) ==
    IF ParseInt(lookupId) <= 0 \/ s.accessToken = Null
      THEN Settled(fetchAssignee_result(lookupId, emps, Fails))
      ELSE Awaiting("awaitEmployeesItem")

\* the lambda of the users/<guid> round up to its await
fetchGraphUser_lambda(s) ==
    IF s.accessToken = Null THEN Settled("") ELSE Awaiting("awaitUser")

\* resolveEmployeeNames up to its first await
resolveEmployeeNames_begin(recs) ==
    LET expanded == expandedEmployees(recs)
        ids == employeeIdsToFetch(expanded)
        Populate(r) == populateEmployee(r, EmptyMap)
    IN  IF ids = {} THEN Return(expanded)
        ELSE IF integerIds(ids) = {}
          THEN Return(MapRecords(Populate, expanded))
        ELSE /\ resolver' = [resolver EXCEPT !.pc = "awaitListIds",
                                             !.records = expanded,
                                             !.toFetch = integerIds(ids)]
             /\ UNCHANGED result

\* resolveAssigneeNames up to its first await
resolveAssigneeNames_begin(recs) ==
    LET st0 == [cache |-> EmptyMap, toFetch |-> lookupIdsToFetch(recs)]
        st1 == expandedAssignees(recs, cachedEmployees, 1, st0)
        st2 == fromCachedEmployees(st1, cachedEmployees)
        Populate(r) == populateAssignee(r, st2.cache, cachedEmployees)
    IN  IF st0.toFetch = {} THEN Return(recs)
        ELSE IF st2.toFetch = {} THEN Return(MapRecords(Populate, recs))
        ELSE /\ resolver' = [resolver EXCEPT !.pc = "awaitListIds",
                                             !.records = recs,
                                             !.cache = st2.cache,
                                             !.toFetch = st2.toFetch]
             /\ UNCHANGED result

\* getRecords, the items being there, calls the resolver of the list
getRecords_resolve ==
    /\ resolver.pc = "idle"
    /\ IF listName = "Access Cards"
         THEN resolveEmployeeNames_begin(itemRecords(items, fieldMapping))
         ELSE resolveAssigneeNames_begin(itemRecords(items, fieldMapping))
    /\ UNCHANGED <<svcVars, calls, requests, resolveFrame>>

\* the two getListId calls have settled: integerIds.map(async ...)
resolveEmployeeNames_lists ==
    /\ listName = "Access Cards"
    /\ resolver.pc = "awaitListIds"
    /\ LET lists == directory.lists
           lambdas == [id \in IdTexts |->
                          IF id \in resolver.toFetch
                            THEN fetchEmployee_lambda(Service, lists)
                            ELSE NoCall]
       IN  /\ resolver' = [resolver EXCEPT !.pc = "awaitAll", !.lists = lists]
           /\ calls' = lambdas
           /\ requests' = Sent(calls, lambdas)
    /\ UNCHANGED <<svcVars, result, resolveFrame>>

\* the answer to lists/<Employees>/items/<n> reaches its lambda
fetchEmployee_item(id) ==
    /\ listName = "Access Cards"
    /\ calls[id].pc = "awaitEmployeesItem"
    /\ LET employeeItem == directory.items[ParseInt(id)]
           s == Answered(Service, employeeItem)
           after == [calls EXCEPT ![id] =
                        IF employeeItem \in {Fails, Expired}
                          THEN fetchEmployee_cards(s, resolver.lists)
                          ELSE Settled(employeeItem)]
       IN  /\ SetService(s)
           /\ calls' = after
           /\ requests' = Sent(calls, after)
    /\ UNCHANGED <<resolver, result, resolveFrame>>

\* the answer to lists/<Access Cards>/items/<n> reaches its lambda
fetchEmployee_card(id) ==
    /\ calls[id].pc = "awaitAccessCardsItem"
    /\ LET cardItem == directory.cards[ParseInt(id)]
       IN  /\ SetService(Answered(Service, cardItem))
           /\ calls' = [calls EXCEPT ![id] =
                 Settled(IF cardItem \in {Fails, Expired} THEN "" ELSE cardItem)]
    /\ UNCHANGED <<resolver, requests, result, resolveFrame>>

\* resolveEmployeeNames after its Promise.all
resolveEmployeeNames_populate ==
    /\ listName = "Access Cards"
    /\ resolver.pc = "awaitAll"
    /\ PromiseAll
    /\ LET Name(id) == calls[id].name
           employeeNameCache == CacheNames(EmptyMap, resolver.toFetch, Name)
           Populate(r) == populateEmployee(r, employeeNameCache)
       IN  Return(MapRecords(Populate, resolver.records))
    /\ UNCHANGED <<svcVars, calls, requests, resolveFrame>>

\* resolveAssigneeNames from "Fetch any remaining unresolved GUIDs" on, up to
\* its next await or its end
resolveAssigneeNames_graph(userNameCache) ==
    LET guids == unresolvedGuids([cache |-> userNameCache,
                                  toFetch |-> resolver.toFetch])
        lambdas == [id \in IdTexts |->
                       IF id \in guids THEN fetchGraphUser_lambda(Service)
                                       ELSE NoCall]
        Populate(r) == populateAssignee(r, userNameCache, cachedEmployees)
    IN  IF guids = {}
          THEN /\ Return(MapRecords(Populate, resolver.records))
               /\ UNCHANGED <<calls, requests>>
          ELSE /\ resolver' = [resolver EXCEPT !.pc = "awaitAll2",
                                               !.cache = userNameCache]
               /\ calls' = lambdas
               /\ requests' = Sent(calls, lambdas)
               /\ UNCHANGED result

\* getListId('Employees') has settled
resolveAssigneeNames_lists ==
    /\ listName = "Assets"
    /\ resolver.pc = "awaitListIds"
    /\ LET lists == directory.lists
           lambdas == [id \in IdTexts |->
                          IF id \in resolver.toFetch
                            THEN fetchAssignee_lambda(id, Service, cachedEmployees)
                            ELSE NoCall]
           Cached(id) == CachedName(findEmployeeById(cachedEmployees, id))
       IN  IF "Employees" \in lists
             THEN /\ resolver' = [resolver EXCEPT !.pc = "awaitAll",
                                                  !.lists = lists]
                  /\ calls' = lambdas
                  /\ requests' = Sent(calls, lambdas)
                  /\ UNCHANGED result
             ELSE resolveAssigneeNames_graph(
                      CacheNames(resolver.cache, resolver.toFetch, Cached))
    /\ UNCHANGED <<svcVars, resolveFrame>>

\* the answer to lists/<Employees>/items/<n> reaches its lambda
fetchAssignee_item(id) ==
    /\ listName = "Assets"
    /\ calls[id].pc = "awaitEmployeesItem"
    /\ LET answer == directory.items[ParseInt(id)]
           employeeItem == IF answer = Expired THEN Fails ELSE answer
       IN  /\ SetService(Answered(Service, answer))
           /\ calls' = [calls EXCEPT ![id] =
                 Settled(fetchAssignee_result(id, cachedEmployees, employeeItem))]
    /\ UNCHANGED <<resolver, requests, result, resolveFrame>>

\* resolveAssigneeNames after the Promise.all of the Employees round
resolveAssigneeNames_users ==
    /\ listName = "Assets"
    /\ resolver.pc = "awaitAll"
    /\ PromiseAll
    /\ LET Name(id) == calls[id].name
       IN  resolveAssigneeNames_graph(
               CacheNames(resolver.cache, resolver.toFetch, Name))
    /\ UNCHANGED <<svcVars, resolveFrame>>

\* the answer to users/<guid> reaches its lambda
fetchGraphUser_user(id) ==
    /\ calls[id].pc = "awaitUser"
    /\ LET answer == directory.users[id]
       IN  /\ SetService(Answered(Service, answer))
           /\ calls' = [calls EXCEPT ![id] =
                 Settled(IF answer \in {Fails, Expired} THEN "" ELSE answer)]
    /\ UNCHANGED <<resolver, requests, result, resolveFrame>>

\* resolveAssigneeNames after the Promise.all of the users/<guid> round
resolveAssigneeNames_populate ==
    /\ listName = "Assets"
    /\ resolver.pc = "awaitAll2"
    /\ PromiseAll
    /\ LET Name(id) == calls[id].name
           called == {id \in IdTexts : calls[id].pc # "none"}
           userNameCache == CacheNames(resolver.cache, called, Name)
           Populate(r) == populateAssignee(r, userNameCache, cachedEmployees)
       IN  Return(MapRecords(Populate, resolver.records))
    /\ UNCHANGED <<svcVars, calls, requests, resolveFrame>>

\* the list is loaded once more over the same server data, after a new
\* sign-in when the session has ended
loadRecords_again ==
    /\ resolver.pc = "done"
    /\ resolver.run < MaxRuns
    /\ accessToken = Null => tokenSeq < MaxTokens
    /\ resolver' = [IdleResolver EXCEPT !.run = resolver.run + 1,
                                        !.previous = result]
    /\ calls' = [id \in IdTexts |-> NoCall]
    /\ requests' = [id \in IdTexts |-> <<>>]
    /\ result' = NotRun
    /\ IF accessToken = Null
         THEN /\ accessToken' = Token(tokenSeq + 1)
              /\ tokenSeq' = tokenSeq + 1
         ELSE UNCHANGED <<accessToken, tokenSeq>>
    /\ UNCHANGED <<siteId, listIdCache, fieldMappingCache,
                   onSessionTimeoutCallback, callbackRuns, threads, uiVars,
                   columns, fieldMapping, record, normalized, copy, items,
                   directory, cachedEmployees, shown, updateCalls, otherVars, serverVars>>

ResolvePool(name) ==
    IF name = "Assets"
      THEN {<<[key |-> field_2LookupId, value |-> Str("5")]>>,
            <<[key |-> field_2LookupId, value |-> Str("7")]>>,
            <<[key |-> field_2LookupId, value |-> Str(LetterGuid)]>>,
            <<[key |-> field_2LookupId, value |-> Str(DigitGuid)]>>,
            <<[key |-> field_2LookupId, value |-> Str("5")],
              [key |-> field_2, value |-> Person("5", "Zed")]>>}
      ELSE {<<[key |-> EmployeeLookupId, value |-> Str("5")]>>,
            <<[key |-> EmployeeLookupId, value |-> Str("7")]>>,
            <<[key |-> EmployeeLookupId, value |-> Str(DigitGuid)]>>,
            <<[key |-> EmployeeLookupId, value |-> Str("5")],
              [key |-> Employee, value |-> Person("5", "Zed")]>>}

\* Dan is the name of Employees item 7
ResolveDirectories(name) ==
    {[lists |-> lists,
      items |-> [n \in ItemNumbers |-> IF n = 5 THEN item5 ELSE item7],
      cards |-> [n \in ItemNumbers |-> IF n = 5 THEN card5 ELSE card7],
      users |-> [g \in GuidIds |-> user]] :
        lists \in {{}, {"Employees", "Access Cards"}, {"Access Cards"}},
        item5 \in {Fails, Expired, "Bob"},
        item7 \in {Fails, "Dan"},
        card5 \in IF name = "Access Cards" THEN {Fails, "Cat"} ELSE {Fails},
        card7 \in IF name = "Access Cards" THEN {Fails, "Cat"} ELSE {Fails},
        user \in {Fails, "Eve"}}

InitResolve ==
    /\ budget = MaxOps
    /\ OthersIdle
    /\ accessToken = Token(1)
    /\ siteId = SiteIdValue
    /\ listIdCache = EmptyMap
    /\ fieldMappingCache = EmptyMap
    /\ onSessionTimeoutCallback = TRUE
    /\ callbackRuns = {}
    /\ tokenSeq = 1
    /\ threads = [t \in Threads |-> IdleThread]
    /\ listScreen = [NoScreen EXCEPT !.loading = TRUE]
    /\ alert = "none"
    /\ started = 0
    /\ listName \in UiLists
    /\ columns = <<>>
    /\ fieldMapping = [built |-> TRUE] @@ getFieldMapping_columns(<<>>)
    /\ record = <<>>
    /\ normalized = [c \in Copies |-> NotRun]
    /\ copy = "services"
    /\ items \in UNION {[1..m -> ResolvePool(listName)] : m \in 1..MaxRecords}
    /\ directory \in ResolveDirectories(listName)
    /\ cachedEmployees \in {<<>>, <<CachedEmployee("5", "", "", "Ian")>>}
    /\ result = NotRun
    /\ shown = NotRun
    /\ ResolverStart

NextResolve ==
    \/ getRecords_resolve
    \/ resolveEmployeeNames_lists
    \/ \E id \in IdTexts : fetchEmployee_item(id)
    \/ \E id \in IdTexts : fetchEmployee_card(id)
    \/ resolveEmployeeNames_populate
    \/ resolveAssigneeNames_lists
    \/ \E id \in IdTexts : fetchAssignee_item(id)
    \/ resolveAssigneeNames_users
    \/ \E id \in IdTexts : fetchGraphUser_user(id)
    \/ resolveAssigneeNames_populate
    \/ loadRecords_again

SpecResolve == InitResolve /\ [][NextResolve]_vars

(***************************************************************************)
(* SpecUsers: getAllUsers (src/services/sharepointService.ts) against a    *)
(* tenant whose user listing is paged.  Page p of the listing holds        *)
(* p % 3 users; lastPage is the page whose response carries no             *)
(* @odata.nextLink, 0 when every response carries one.                     *)
(***************************************************************************)
maxPages == 50

\* nextLink = null
NoLink == 0

\* response.value of page p
PageUsers(p) == [i \in 1..(p % 3) |-> <<p, i>>]

\* response['@odata.nextLink'] || null of page p
PageNextLink(p, lastPage) == IF p = lastPage THEN NoLink ELSE p + 1

\* const endpoint = nextLink ? nextLink.replace(...) : `users?...`
PageEndpoint(nextLink) == IF nextLink = NoLink THEN 1 ELSE nextLink

\* the loop goes round for as long as there is a next link, without a cap
LoopEnds_noCap(pageCount, nextLink) == nextLink = NoLink

\* if (pageCount >= maxPages) break; ... while (nextLink)
LoopEnds(pageCount, nextLink) == pageCount >= maxPages \/ nextLink = NoLink

\* the responses to a page request: the page, or an error
PageResponses == {resp \in Responses : resp.payload # "empty"}

usersFrame == <<tokenSeq, threads, uiVars, recordVars, updateCalls, budget,
                listView, serverVars>>

\* return allUsers / catch: return []
getAllUsers_return(call, users, failed) ==
    [call EXCEPT !.pc = "returned", !.returned = users, !.failed = failed]

\* one turn of the do loop up to `await this.makeGraphRequest(endpoint)`
getAllUsers_request(call, s) ==
    IF s.accessToken = Null
      THEN getAllUsers_return(call, <<>>, TRUE)
      ELSE [call EXCEPT !.pc = "awaitPage",
                        !.endpoint = PageEndpoint(call.nextLink),
                        !.sent = @ + 1]

\* getAllUsers() up to its first await
getAllUsers_call ==
    /\ userPaging.pc = "idle"
    /\ userPaging' = getAllUsers_request(userPaging, Service)
    /\ UNCHANGED <<svcVars, usersFrame>>

\* a page response arrives and the loop runs to its next await or its end
getAllUsers_page ==
    /\ userPaging.pc = "awaitPage"
    /\ \E resp \in PageResponses :
         IF resp.status = 200
           THEN LET page == userPaging.endpoint
                    allUsers == userPaging.allUsers \o PageUsers(page)
                    nextLink == PageNextLink(page, userPaging.lastPage)
                    pageCount == userPaging.pageCount + 1
                    turned == [userPaging EXCEPT !.allUsers = allUsers,
                                                 !.nextLink = nextLink,
                                                 !.pageCount = pageCount]
                IN  /\ userPaging' =
                          IF LoopEnds(pageCount, nextLink)
                            THEN getAllUsers_return(turned, allUsers, FALSE)
                            ELSE getAllUsers_request(turned, Service)
                    /\ UNCHANGED svcVars
           ELSE /\ SetService(makeGraphRequestError(Service, resp).svc)
                /\ userPaging' = getAllUsers_return(userPaging, <<>>, TRUE)
    /\ UNCHANGED usersFrame

LastPages == {0, 1, 2, 3, maxPages - 1, maxPages, maxPages + 1}

InitUsers ==
    /\ budget = MaxOps
    /\ accessToken = Token(1)
    /\ siteId = Null
    /\ listIdCache = EmptyMap
    /\ fieldMappingCache = EmptyMap
    /\ onSessionTimeoutCallback = TRUE
    /\ callbackRuns = {}
    /\ tokenSeq = 1
    /\ threads = [t \in Threads |-> IdleThread]
    /\ listScreen = NoScreen
    /\ alert = "none"
    /\ started = 0
    /\ listName = "Assets"
    /\ columns = <<>>
    /\ fieldMapping = NotBuilt
    /\ record = <<>>
    /\ normalized = [c \in Copies |-> NotRun]
    /\ copy = "services"
    /\ items = <<>>
    /\ directory = NoDirectory
    /\ cachedEmployees = <<>>
    /\ result = NotRun
    /\ shown = NotRun
    /\ ResolverStart
    /\ listView = NoListView
    /\ userPaging \in {[NoPaging EXCEPT !.lastPage = p] : p \in LastPages}

NextUsers ==
    \/ getAllUsers_call
    \/ getAllUsers_page

SpecUsers == InitUsers /\ [][NextUsers]_vars

(***************************************************************************)
(* The list screen with its records loaded                                 *)
(***************************************************************************)
Categories == {<<>>, <<"T", "v">>, <<" ", "T", "v">>}

LookupIds == {<<>>, <<"1", "2">>}

Numbers == {<<>>, <<"9">>, <<"1", "0">>, <<"a">>, <<"B">>}

AssetNumbers == {<<"9">>, <<"1", "0">>, <<"a">>}

Queries == {<<>>, <<"1">>, <<"T">>}

\* the records a list can hold: the assets carry a category and one of three
\* numbers, the access cards no category and any of the numbers
ListRecords(name) ==
    IF name = "Assets"
      THEN [field_0 : Categories, lookup : LookupIds, number : AssetNumbers]
      ELSE [field_0 : {<<>>}, lookup : LookupIds, number : Numbers]

ListsOf(name) == UNION {[1..n -> ListRecords(name)] : n \in 0..MaxList}

listFrame == <<svcVars, tokenSeq, threads, uiVars, recordVars, updateCalls,
               budget, userPaging, serverVars>>

\* onPress of a category chip; the chips are on screen for Assets with records
setSelectedCategory ==
    /\ listName = "Assets"
    /\ listView.records # <<>>
    /\ \E category \in DOMAIN listView.categoryCounts :
         listView' = Render(listName, listView.records, listView.searchQuery,
                            category)
    /\ UNCHANGED listFrame

\* onChangeText of the search box
setSearchQuery ==
    /\ \E query \in Queries :
         listView' = Render(listName, listView.records, query,
                            listView.selectedCategory)
    /\ UNCHANGED listFrame

InitList ==
    /\ budget = MaxOps
    /\ accessToken = Token(1)
    /\ siteId = Null
    /\ listIdCache = EmptyMap
    /\ fieldMappingCache = EmptyMap
    /\ onSessionTimeoutCallback = TRUE
    /\ callbackRuns = {}
    /\ tokenSeq = 1
    /\ threads = [t \in Threads |-> IdleThread]
    /\ listScreen = NoScreen
    /\ alert = "none"
    /\ started = 0
    /\ listName \in UiLists
    /\ columns = <<>>
    /\ fieldMapping = NotBuilt
    /\ record = <<>>
    /\ normalized = [c \in Copies |-> NotRun]
    /\ copy = "services"
    /\ items = <<>>
    /\ directory = NoDirectory
    /\ cachedEmployees = <<>>
    /\ result = NotRun
    /\ shown = NotRun
    /\ ResolverStart
    /\ userPaging = NoPaging
    /\ \E recs \in ListsOf(listName) : listView = Render(listName, recs, <<>>, All)

NextList ==
    \/ setSelectedCategory
    \/ setSearchQuery

SpecList == InitList /\ [][NextList]_vars

(***************************************************************************)
(* Session expiry (checked under Spec)                                     *)
(***************************************************************************)
\* thread t's makeGraphRequest receives its response and ends in this step
RequestEnds(t) ==
    /\ threads[t].stack # <<>>
    /\ Top(t).fn = "makeGraphRequest"
    /\ threads'[t] # threads[t]

\* handleSessionTimeout ran in this step and ended a live session
SessionCleared == accessToken # Null /\ accessToken' = Null

SessionTimeoutThrown == [kind |-> "throw", val |-> "SessionTimeoutError"]

\* C1: whenever a makeGraphRequest detects that the session expired (the
\* step in which it clears the session, on a 401 or on a token-related 403),
\* the error it leaves to its caller is a SessionTimeoutError.
C1_ExpirySurfacesAsSessionTimeoutError ==
    [][\A t \in Threads :
          RequestEnds(t) /\ SessionCleared
            => threads'[t].ret = SessionTimeoutThrown]_vars

\* a request that cleared the session has left the generic Graph API error
C1_ExpiryLeftGenericError ==
    \E t \in Threads :
        /\ threads[t].ret = [kind |-> "throw",
                             val |-> "Microsoft Graph API error: 403 (token-related body)"]
        /\ accessToken = Null
        /\ tokenSeq > 0

\* C2: in every state in which the registered session-timeout callback ran,
\* the access token was null and the site id, the list-id cache and the
\* field-mapping cache were empty.
C2_CallbackRunsAfterClearing ==
    \A v \in callbackRuns :
        /\ v.accessToken = Null
        /\ v.siteId = Null
        /\ v.listIdCache = EmptyMap
        /\ v.fieldMappingCache = EmptyMap

\* the callback has run on a session that had a token and filled caches
C2_CallbackRanOnFilledSession ==
    /\ callbackRuns # {}
    /\ accessToken = Null
    /\ \E t \in Threads :
          /\ threads[t].ret = SessionTimeoutThrown
          /\ threads[t].stack # <<>>
          /\ Top(t).fn = "getRecords"
          /\ Top(t).pc = "awaitItems"

\* C3: no HTTP request is ever issued without a token: every request in
\* flight was sent with the token the service held when it was made, and a
\* call made while the token is null has failed with 'Not authenticated'
\* instead.
C3_NoRequestWithoutToken ==
    \A t \in Threads :
        \A i \in 1..Len(threads[t].stack) :
            threads[t].stack[i].fn = "makeGraphRequest"
              => threads[t].stack[i].auth # Null

\* a call of a running multi-step operation, made after a 401 cleared the
\* token, failed locally
C3_FailedLocallyAfterExpiry ==
    /\ accessToken = Null
    /\ \E t \in Threads :
          /\ threads[t].expired
          /\ threads[t].ret = [kind |-> "throw", val |-> "NotAuthenticated"]

\* thread t's UI handler settles in this step
HandlerSettles(t) ==
    /\ threads[t].stack # <<>>
    /\ Top(t).fn \in {"loadRecords", "handleDelete",
                     "handleAssignAccessCard", "handleAssignAsset",
                     "handleUnassignAccessCard", "handleUnassignAsset"}
    /\ threads[t].ret.kind = "throw"
    /\ threads'[t] = IdleThread

\* the error that reached thread t's handler comes from the expiry of the
\* session: the error of a request that detected the expiry, or the local
\* failure of a later call of the same operation
FailedOnExpiry(t) ==
    \/ threads[t].ret.val = "SessionTimeoutError"
    \/ threads[t].ret.val = "Microsoft Graph API error: 403 (token-related body)"
    \/ threads[t].ret.val = "NotAuthenticated" /\ threads[t].expired

\* C4: a UI handler (loadRecords, save, delete) whose operation failed
\* because the session expired never calls Alert.alert for that failure.
C4_NoAlertOnExpiry ==
    [][\A t \in Threads :
          HandlerSettles(t) /\ FailedOnExpiry(t) => alert' # "Error"]_vars

\* C5: after a successful authenticate() the site id, the list-id cache and
\* the field-mapping cache are all empty.
C5_CachesEmptyAfterAuthenticate ==
    [][tokenSeq' # tokenSeq
          => /\ siteId' = Null
             /\ listIdCache' = EmptyMap
             /\ fieldMappingCache' = EmptyMap]_vars

\* a re-authentication has happened while a field mapping was cached
C5_StaleMappingAfterReauthentication ==
    /\ tokenSeq > 1
    /\ accessToken # Null
    /\ fieldMappingCache # EmptyMap

(***************************************************************************)
(* Assignment (checked under Spec)                                         *)
(***************************************************************************)
PairedFields == {"EmployeeLookupId", "CardStatus", "field_2LookupId",
                 "DeviceStatus"}

\* the fields either leave the lookup and the status alone or set the two
\* of one list together
SetsThePair(fields) ==
    \/ DOMAIN fields \cap PairedFields = {}
    \/ \E name \in {"Access Cards", "Assets"} :
         DOMAIN fields \cap PairedFields = {LookupOf(name), StatusOf(name)}

\* the fields assign an employee: the lookup is an id, the status 'Assigned'
AssignsThePair(fields, name) ==
    /\ {LookupOf(name), StatusOf(name)} \subseteq DOMAIN fields
    /\ fields[LookupOf(name)] # Null
    /\ fields[StatusOf(name)] = "Assigned"

AssignHandlers == {"handleAssignAccessCard", "handleAssignAsset"}

\* thread t runs an assign handler whose updateRecord has returned
AssignSucceeded(t) ==
    /\ threads[t].stack # <<>>
    /\ Top(t).fn \in AssignHandlers
    /\ Top(t).pc = "awaitUpdate"
    /\ threads[t].ret.kind = "value"

\* the bodies of the PATCH requests of thread t that are on the wire
PatchBodies(t) ==
    {threads[t].stack[i].body :
        i \in {j \in DOMAIN threads[t].stack :
                 /\ threads[t].stack[j].fn = "makeGraphRequest"
                 /\ threads[t].stack[j].arg = "PATCH"}}

\* C19: a successful assign has issued exactly one updateRecord call; every
\* PATCH of an assign sets the lookup field of the list and its status field
\* ('Assigned') in the same request, and no PATCH of the client sets one of
\* the two without the other.
C19_OnePatchSetsLookupAndStatus ==
    \A t \in Threads :
        /\ AssignSucceeded(t) => Len(updateCalls[t]) = 1
        /\ (threads[t].stack # <<>> /\ Top(t).fn \in AssignHandlers)
              => \A i \in DOMAIN updateCalls[t] :
                    AssignsThePair(updateCalls[t][i], listName)
        /\ \A i \in DOMAIN updateCalls[t] : SetsThePair(updateCalls[t][i])
        /\ \A body \in PatchBodies(t) : body # NoFields /\ SetsThePair(body)

\* an assign has succeeded after the id was resolved by the email
C19_AssignedInOnePatch ==
    \E t \in Threads :
        /\ AssignSucceeded(t)
        /\ updateCalls[t] =
              <<[f \in {LookupOf(listName), StatusOf(listName)} |->
                    IF f = LookupOf(listName) THEN UserItemId ELSE "Assigned"]>>

\* the resolution thread t's assign handler awaited has thrown or returned
\* null
ResolutionFailed(t) ==
    /\ threads[t].stack # <<>>
    /\ Top(t).fn \in AssignHandlers
    /\ Top(t).pc \in {"awaitUserId", "awaitUserIdByEmail"}
    /\ \/ threads[t].ret.kind = "throw"
       \/ threads[t].ret.kind = "value" /\ threads[t].ret.val = Null

\* this step starts an assign on thread t for an employee that is not in the
\* employees list
EmployeeNotFound(t) ==
    /\ CanStart(t)
    /\ started' # started
    /\ threads' = threads
    /\ alert' = "Employee not found"

\* thread t has no updateRecord call on its stack
NoUpdateRecord(th) ==
    \A i \in DOMAIN th.stack : th.stack[i].fn # "updateRecord"

\* C20: when the chosen employee is not in the employees list, when the
\* resolution by id and the one by email return null, or when a resolution
\* throws, the assign handler issues no updateRecord call.
C20_NoUpdateWithoutResolution ==
    [][\A t \in Threads :
          (ResolutionFailed(t) \/ EmployeeNotFound(t))
             => /\ updateCalls'[t] = <<>>
                /\ NoUpdateRecord(threads'[t])]_vars

\* the assign gave up after both resolutions returned null, nothing was sent
C20_GaveUpUnmodified ==
    /\ alert = "Could not resolve employee"
    /\ \A t \in Threads : updateCalls[t] = <<>> /\ threads[t] = IdleThread

(***************************************************************************)
(* Assign, then unassign (checked under SpecOverlap)                       *)
(***************************************************************************)
UnassignHandlers == {"handleUnassignAccessCard", "handleUnassignAsset"}

\* the PATCH request of an unassign handler is on the wire on thread t
UnassignPatchInFlight(t) ==
    /\ threads[t].stack # <<>>
    /\ Top(t).fn = "makeGraphRequest"
    /\ Top(t).arg = "PATCH"
    /\ threads[t].stack[Len(threads[t].stack)].fn \in UnassignHandlers

\* this step is the server's OK to the request thread t has on the wire
AnsweredOk(t) ==
    /\ threads'[t].stack = Tail(threads[t].stack)
    /\ threads'[t].ret.kind = "value"

\* C21: the PATCH of an unassign carries exactly the lookup field (null) and
\* the status field ('Available') of the list, and once the server has
\* accepted it the record is Available again - as it was before the assign
\* that preceded the unassign.
C21_UnassignRestoresAvailable ==
    [][\A t \in Threads :
          UnassignPatchInFlight(t)
             => /\ Top(t).body = AvailableRecord(listName)
                /\ AnsweredOk(t) => serverRecord' = AvailableRecord(listName)]_vars

\* a successful assign has been written and the PATCH of the unassign that
\* follows it is on the wire
C21_UnassignAfterAssign ==
    /\ serverRecord[LookupOf(listName)] = UserItemId
    /\ serverRecord[StatusOf(listName)] = "Assigned"
    /\ \E t \in Threads :
          /\ UnassignPatchInFlight(t)
          /\ \A u \in Threads \ {t} : Idle(u)

(***************************************************************************)
(* The field-mapping cache (checked under SpecOverlap and Spec)            *)
(***************************************************************************)
\* C22: within one session, that is with one token, getFieldMapping sends
\* the columns request of the list at most once; later calls are served
\* from the cache.
C22_ColumnsRequestedOncePerSession ==
    \A token \in DOMAIN columnRequests : columnRequests[token] <= 1

\* the call getFieldMapping awaited on thread t has thrown
FieldMappingCatches(t) ==
    /\ threads[t].stack # <<>>
    /\ Top(t).fn = "getFieldMapping"
    /\ Threw(t)

\* getRecords on thread t has its getFieldMapping call settled
FieldMappingSettled(t) ==
    /\ threads[t].stack # <<>>
    /\ Top(t).fn = "getRecords"
    /\ Top(t).pc = "awaitFieldMapping"
    /\ threads[t].ret.kind # "none"

\* C23: getFieldMapping never throws; when getListId, getSiteId or the
\* columns request has thrown, it stores an empty mapping for the list in
\* fieldMappingCache and returns the empty mapping.
C23_FieldMappingNeverFails ==
    [][\A t \in Threads :
          /\ FieldMappingSettled(t) => threads[t].ret.kind = "value"
          /\ (FieldMappingCatches(t) /\ threads'[t] # threads[t])
                => /\ threads'[t].stack = Tail(threads[t].stack)
                   /\ threads'[t].ret = [kind |-> "value", val |-> "emptyMap"]
                   /\ MapHas(fieldMappingCache', Top(t).arg)
                   /\ fieldMappingCache'[Top(t).arg] = EmptyMap]_vars

\* getRecords goes on with the empty mapping that a failed columns request
\* left in the cache
C23_EmptyMappingReturned ==
    \E t \in Threads :
        /\ FieldMappingSettled(t)
        /\ threads[t].ret = [kind |-> "value", val |-> "emptyMap"]
        /\ MapHas(fieldMappingCache, listName)
        /\ fieldMappingCache[listName] = EmptyMap
        /\ MapHas(listIdCache, listName)

(***************************************************************************)
(* The session under overlapping requests (checked under SpecOverlap)      *)
(***************************************************************************)
\* C25: in every reachable state, whatever the interleaving of requests in
\* flight with a session expiry, a null access token comes with a null site
\* id, an empty list-id cache and an empty field-mapping cache.
C25_NoTokenNoCaches ==
    accessToken = Null
       => /\ siteId = Null
          /\ listIdCache = EmptyMap
          /\ fieldMappingCache = EmptyMap

\* thread t's request was sent with the token of an earlier session, a newer
\* session is in place, and this step delivers the response
StaleRequestAnswered(t) ==
    /\ threads[t].stack # <<>>
    /\ Top(t).fn = "makeGraphRequest"
    /\ Top(t).auth # Null
    /\ accessToken # Null
    /\ Top(t).auth # accessToken
    /\ threads'[t].stack = Tail(threads[t].stack)

\* C26: the response to a request that was issued with an earlier token,
\* a 401 or a token-related 403 included, leaves a newer session as it is:
\* the token and the caches stay and the session-timeout callback is not run.
C26_LateExpiryLeavesNewSession ==
    [][\A t \in Threads :
          StaleRequestAnswered(t)
             => /\ accessToken' = accessToken
                /\ siteId' = siteId
                /\ listIdCache' = listIdCache
                /\ fieldMappingCache' = fieldMappingCache
                /\ callbackRuns' = callbackRuns]_vars

\* C28: once every run of loadRecords has finished, what the list screen
\* shows is the outcome of the run that was started last: the spinner is off,
\* an error on screen is that run's error, and without an error the records
\* on screen are that run's records.
LoadRecordsRunning ==
    \E t \in Threads : \E i \in DOMAIN threads[t].stack :
        threads[t].stack[i].fn = "loadRecords"

C28_LastRunIsShown ==
    (listScreen.lastRun # 0 /\ ~LoadRecordsRunning)
       => /\ ~listScreen.loading
          /\ listScreen.error # Null => listScreen.errorRun = listScreen.lastRun
          /\ listScreen.error = Null => listScreen.recordsRun = listScreen.lastRun

\* C27: the session-timeout callback runs at most once for each session
\* expiry: every run ends a session that still had its token, and no token
\* is ended by two runs, however many requests sent with it receive a 401.
C27_OneCallbackPerExpiry ==
    \A v, w \in callbackRuns :
        /\ v.ended # Null
        /\ v.ended = w.ended => v.run = w.run

(***************************************************************************)
(* The list screen's chips and order (checked under SpecList)              *)
(***************************************************************************)
\* the chips other than 'All'
CategoryChips == DOMAIN listView.categoryCounts \ {All}

RECURSIVE SumOfCounts(_, _)
SumOfCounts(counts, chips) ==
    IF chips = {} THEN 0
    ELSE LET chip == CHOOSE c \in chips : TRUE
         IN  counts[chip] + SumOfCounts(counts, chips \ {chip})

\* C29: on the Assets list with an empty search query the number of records
\* shown under the selected chip is the count on that chip, and the counts
\* of the chips other than 'All' add up to the count of 'All', which is the
\* number of records.
C29_ChipCountsMatchTheList ==
    (listName = "Assets" /\ listView.records # <<>>
       /\ trim(listView.searchQuery) = <<>>)
       => /\ listView.categoryCounts[All] = Len(listView.records)
          /\ Len(listView.filteredRecords)
                = listView.categoryCounts[listView.selectedCategory]
          /\ SumOfCounts(listView.categoryCounts, CategoryChips)
                = listView.categoryCounts[All]

\* the order the list is meant to be in within a group: by number when both
\* numbers parse as integers, by text otherwise
NumberOrdered(a, b) ==
    LET numA == parseInt(getFieldValue(a))
        numB == parseInt(getFieldValue(b))
    IN  IF ~isNaN(numA) /\ ~isNaN(numB) THEN numA.value <= numB.value
        ELSE localeCompare(getFieldValue(a), getFieldValue(b)) <= 0

Occurrences(recs, rec) == Cardinality({i \in DOMAIN recs : recs[i] = rec})

IsPermutation(a, b) ==
    /\ Len(a) = Len(b)
    /\ \A i \in DOMAIN a : Occurrences(a, a[i]) = Occurrences(b, a[i])

RECURSIVE UsersOfPages(_)
UsersOfPages(n) == IF n = 0 THEN <<>> ELSE UsersOfPages(n - 1) \o PageUsers(n)

RawLookup(i) ==
    IF listName = "Access Cards"
      THEN Get(items[i], EmployeeLookupId)
      ELSE Coalesce(<<Get(items[i], field_2LookupId),
                      Get(items[i], AssigneeLookupId)>>)

LookupSet(i) == ~Nullish(RawLookup(i))

DisplayField == IF listName = "Access Cards" THEN Employee ELSE Assignee

ExpandedField == IF listName = "Access Cards" THEN Employee ELSE field_2

\* some item of the batch carries an expanded object with a name for id
NamedByObject(id) ==
    \E j \in 1..Len(items) :
        /\ LookupSet(j)
        /\ ToStr(RawLookup(j)) = id
        /\ Get(items[j], ExpandedField).type = "object"
        /\ ObjectAnyName(Get(items[j], ExpandedField)) # ""

\* a request the id can be looked up with answers with a name
NamedByServer(id) ==
    \/ ParseInt(id) > 0 /\ directory.items[ParseInt(id)] \notin {Fails, ""}
    \/ ParseInt(id) > 0 /\ directory.cards[ParseInt(id)] \notin {Fails, ""}
    \/ IsGuid(id) /\ directory.users[id] # Fails

\* no strategy finds an identity for the reference of item i
NoIdentity(i) ==
    /\ ~NamedByServer(ToStr(RawLookup(i)))
    /\ CachedName(findEmployeeById(cachedEmployees, ToStr(RawLookup(i)))) = ""
    /\ ~NamedByObject(ToStr(RawLookup(i)))

\* C6: once getRecords has returned, every record whose lookup reference is
\* non-null and for which no strategy found an identity has, as its display
\* field (Employee / Assignee), exactly '[ID: ' + String(rawId) + ']'.
C6_UnresolvedLookupGetsPlaceholder ==
    result.done =>
        \A i \in 1..Len(items) :
            LookupSet(i) /\ NoIdentity(i)
              => Get(result.value[i], DisplayField)
                   = Placeholder(ToStr(RawLookup(i)))

NameOrPlaceholder(v, raw) ==
    /\ v.type = "string"
    /\ (v = Placeholder(ToStr(raw)) \/ v.text \in Names)

\* C7: for every returned record whose lookup reference is set, the display
\* field holds a resolved name or the '[ID: <raw>]' placeholder, and the
\* assignee row of the list screen shows neither the raw foreign key nor an
\* object.
C7_ListShowsNameOrPlaceholder ==
    shown.done =>
        \A i \in 1..Len(items) :
            LookupSet(i)
              => /\ NameOrPlaceholder(Get(result.value[i], DisplayField),
                                      RawLookup(i))
                 /\ shown.value[i] # RawLookup(i)
                 /\ shown.value[i].type # "object"

\* the expanded sibling object of item i, Undefined when it has none
SiblingObject(i) ==
    IF Get(items[i], ExpandedField).type = "object"
      THEN Get(items[i], ExpandedField)
      ELSE Undefined

\* the embedded identifier (id or email) of the object is the lookup id
IdentifierMatches(obj, raw) ==
    \/ obj.id # "" /\ ToLowerCase(obj.id) = ToLowerCase(ToStr(raw))
    \/ obj.email # "" /\ ToLowerCase(obj.email) = ToLowerCase(ToStr(raw))

\* the first strategy yields a name for item i
NamedBySibling(i) ==
    /\ LookupSet(i)
    /\ SiblingObject(i) # Undefined
    /\ IdentifierMatches(SiblingObject(i), RawLookup(i))
    /\ ObjectAnyName(SiblingObject(i)) # ""

\* C13: the first strategy that yields a name decides the display field:
\* when the expanded sibling object of a record matches its lookup id and
\* has a name, the record returned shows that name; no later strategy's
\* result and no placeholder has taken its place.
C13_FirstNameIsKept ==
    result.done =>
        \A i \in 1..Len(items) :
            NamedBySibling(i)
              => Get(result.value[i], DisplayField)
                   = Str(ObjectAnyName(SiblingObject(i)))

\* item i carries an expanded object that belongs to somebody else: neither
\* its embedded id nor its email is the lookup id of the record
ForeignSibling(i) ==
    /\ LookupSet(i)
    /\ SiblingObject(i) # Undefined
    /\ ObjectAnyName(SiblingObject(i)) # ""
    /\ ~IdentifierMatches(SiblingObject(i), RawLookup(i))

\* C14: an expanded sibling object whose embedded id and email both differ
\* from the lookup id of its record is never the source of the name shown
\* for the record.
C14_OnlyMatchingObjectNamesRecord ==
    result.done =>
        \A i \in 1..Len(items) :
            ForeignSibling(i)
              => Get(result.value[i], DisplayField)
                   # Str(ObjectAnyName(SiblingObject(i)))

\* the lookup id of item i, as text
LookupText(i) == ToStr(RawLookup(i))

\* item i refers to its person by a directory GUID
GuidLookup(i) == LookupSet(i) /\ IsGuid(LookupText(i))

\* the names only the integer path gives: the Employees and the Access Cards
\* list item of a number, and the cached employee matched by integer Id or
\* EmpID
IntegerPathNames == {Str("Bob"), Str("Cat"), Str("Ian")}

\* C11: a lookup id of GUID shape never goes down the integer list-item
\* path: it is not read as a number, no lists/<Employees|Access Cards>/
\* items/<n> request is made for it and it is not matched against the integer
\* Id or EmpID of a cached employee; so the record of a GUID never shows a
\* name that only the integer path gives.
C11_GuidNeverTakenForInteger ==
    result.done =>
        \A i \in 1..Len(items) :
            GuidLookup(i)
              => Get(result.value[i], DisplayField) \notin IntegerPathNames

\* the cached employee whose Id is the GUID, NoEmployee when there is none
CachedByGuid(id) ==
    LET ByGuid(emp) == ToLowerCase(emp.Id) = ToLowerCase(id)
    IN  FirstMatch(cachedEmployees, ByGuid)

\* what the directory lookups of a GUID give: the cached employee of that
\* GUID and the answer of users/<guid>
DirectoryNames(id) ==
    (IF CachedByGuid(id) # NoEmployee /\ CachedByGuid(id).displayName # ""
       THEN {Str(CachedByGuid(id).displayName)} ELSE {})
      \cup (IF directory.users[id] # Fails THEN {Str(directory.users[id])}
                                          ELSE {})

\* C12: for a GUID lookup id that a directory lookup can resolve (a GUID
\* match in the employee cache or an answer of users/<guid>), and whose
\* record has no matching expanded object, the name shown is the directory
\* result.
C12_DirectoryNameForGuid ==
    result.done =>
        \A i \in 1..Len(items) :
            (GuidLookup(i) /\ DirectoryNames(LookupText(i)) # {}
                           /\ SiblingObject(i) = Undefined)
              => Get(result.value[i], DisplayField)
                   \in DirectoryNames(LookupText(i))

(***************************************************************************)
(* The fan-out of identity requests (checked under SpecResolve)            *)
(***************************************************************************)
ServerErrors == {Fails, Expired}

\* the server answers every identity request the id can be looked up with
Unfailing(id) ==
    /\ ParseInt(id) > 0
         => /\ directory.items[ParseInt(id)] \notin ServerErrors
            /\ listName = "Access Cards"
                 => directory.cards[ParseInt(id)] \notin ServerErrors
    /\ IsGuid(id) => directory.users[id] \notin ServerErrors

\* the directory with every failing answer an ordinary failure
Plain(dir) ==
    LET Answer(a) == IF a = Expired THEN Fails ELSE a
    IN  [lists |-> dir.lists,
         items |-> [n \in ItemNumbers |-> Answer(dir.items[n])],
         cards |-> [n \in ItemNumbers |-> Answer(dir.cards[n])],
         users |-> [g \in GuidIds |-> Answer(dir.users[g])]]

\* the records when each id is resolved from its own answers alone
ResolvedAlone ==
    getRecords_records(listName, items, fieldMapping, Plain(directory),
                       cachedEmployees)

\* C15: a failing identity request of one id degrades that id only: in the
\* records getRecords returns, every id all of whose own requests the server
\* answers shows what its own answers resolve to.
C15_FailureDegradesOnlyItsId ==
    result.done =>
        \A i \in 1..Len(items) :
            (LookupSet(i) /\ Unfailing(LookupText(i)))
              => Get(result.value[i], DisplayField)
                   = Get(ResolvedAlone[i], DisplayField)

\* C16: the records are the same for every order in which the responses
\* arrive: two loads of the list over the same server answers return the
\* same records.
C16_SameRecordsForEveryOrder ==
    (resolver.previous.done /\ result.done)
      => result.value = resolver.previous.value

\* C17: at most one identity request is sent for a lookup id in one load.
C17_OneRequestPerId == \A id \in IdTexts : Len(requests[id]) <= 1

\* C18: the records are written only while no request of a fan-out is in
\* flight: no display field is set from fetched names before every lambda
\* of the round has settled.
C18_PopulateAfterAllSettled ==
    [][resolver'.records # resolver.records
         => \A id \in IdTexts : ~InFlight(calls[id])]_vars

\* a fan-out of two requests has completed and a fetched name was written
C18_FetchedNameWritten ==
    /\ result.done
    /\ Cardinality({id \in IdTexts : requests[id] # <<>>}) >= 2
    /\ \E i \in 1..Len(items) :
          Get(result.value[i], DisplayField)
            \in {Str("Bob"), Str("Dan"), Str("Cat"), Str("Eve")}

(***************************************************************************)
(* normalizeFieldNames (checked under SpecNorm)                            *)
(***************************************************************************)
\* k is an internal name whose display name d (not k itself) is in the
\* record as well
Duplicated(k) ==
    /\ Has(record, k)
    /\ MapHas(fieldMapping.mapping, k)
    /\ fieldMapping.mapping[k] # k
    /\ Has(record, fieldMapping.mapping[k])

SameValue(k) ==
    Stringify(Get(record, k)) = Stringify(Get(record, fieldMapping.mapping[k]))

\* C8: when an internal key k and its display key d are both in the record
\* with the same serialized value, the normalized record keeps k and drops d.
C8_SameValueKeepsInternalOnly ==
    \A c \in Copies :
        normalized[c].done =>
            \A k \in KeyPool :
                Duplicated(k) /\ SameValue(k)
                  => /\ Has(normalized[c].value, k)
                     /\ ~Has(normalized[c].value, fieldMapping.mapping[k])

\* C9: the keys of the normalized record are keys of the source record, and
\* every key kept carries its source value.
C9_NoInventedKeys ==
    \A c \in Copies :
        normalized[c].done =>
            /\ Keys(normalized[c].value) \subseteq Keys(record)
            /\ \A k \in Keys(normalized[c].value) :
                  Get(normalized[c].value, k) = Get(record, k)

\* C10: when an internal key k and its display key d are both in the record
\* with different serialized values, the normalized record has both, each
\* with its original value.
C10_DifferentValuesKeepBoth ==
    \A c \in Copies :
        normalized[c].done =>
            \A k \in KeyPool :
                Duplicated(k) /\ ~SameValue(k)
                  => /\ Get(normalized[c].value, k) = Get(record, k)
                     /\ Get(normalized[c].value, fieldMapping.mapping[k])
                          = Get(record, fieldMapping.mapping[k])

====
